---- MODULE Spec2Model ----
(***************************************************************************)
(* Model of the Rollgate Python SDK (packages/sdk-python/rollgate):        *)
(* CircuitBreaker, RequestDeduplicator, FlagCache and RollgateClient.      *)
(*                                                                         *)
(* Time.  `now` is the reading of time.time(), counted in ticks of         *)
(* 1/TicksPerMs millisecond, so that a reading falls between two whole     *)
(* milliseconds and int() truncation is visible.  A configuration value    *)
(* given in milliseconds is worth value * TicksPerMs ticks.                *)
(***************************************************************************)
EXTENDS Integers, Sequences, FiniteSets, TLC

VARIABLES
    now,        \* time.time(), in ticks
    cb,         \* CircuitBreaker: state, failures, last_failure_time, half_open_successes, emitted
    cbPc,       \* per execute() caller: "idle" | "running" (suspended in `await fn()`)
    cbEvent,    \* the most recent breaker operation: what it was, when, and the breaker before it
    dd,         \* RequestDeduplicator: enabled, inflight, total_requests, deduplicated_requests
    ddLock,     \* asyncio.Lock of the deduplicator: its holder (0: free) and its FIFO of waiters
    ddCall,     \* per dedupe() call: pc, key, future, attached, ret
    ddHist,     \* per dedupe() call, history: what it saw when it started, whether its slot was dropped
    cache,      \* FlagCache: persist_path (configured or not), entries, stats
    disk,       \* the file at persist_path: missing, unreadable, or a snapshot's entries
    cacheEvent, \* the most recent cache operation: what it was, when, the entry it found, its result
    client,     \* RollgateClient: flags, initialized, user_context, last_etag, closing, http client, mode, stream
    clTask,     \* per fetcher (calling tasks and the poll task): pc, operation, attempt, user of the request
    clLast,     \* the _fetch_flags that ended in the last step, if any: how, and the flags and cache entry around it
    clEmitted,  \* the events the last step emitted, in order
    clOps,      \* number of client operations started
    clHist,     \* history: whether the cache ever held flags, whether flags were ever received
    rt,         \* one fetch_with_retry call: config, loop position, last_error, result, and its history
    ev,         \* one call of the local evaluator: the function, its arguments, what it returned
    bo          \* one calculate_backoff call: attempt, config, the value random() gave, the delay

breakerVars == <<cb, cbPc, cbEvent>>
dedupVars == <<dd, ddLock, ddCall, ddHist>>
cacheVars == <<cache, disk, cacheEvent>>
clientVars == <<client, clTask, clLast, clEmitted, clOps, clHist>>
retryVars == <<rt>>
evalVars == <<ev>>
backoffVars == <<bo>>
vars == <<now, cb, cbPc, cbEvent, dd, ddLock, ddCall, ddHist, cache, disk, cacheEvent,
          client, clTask, clLast, clEmitted, clOps, clHist, rt, ev, bo>>

\* ---------------------------------------------------------------- bounds
MaxTime == 8
TicksPerMs == 2
NumCallers == 2
MaxCalls == 3
DedupMaxTime == 3
CacheMaxTime == 5
MaxGets == 3
MaxOps == 3
ClientMaxMs == 1
MaxRetries == 2
MaxRules == 2
MaxAttempt == 10

Max(a, b) == IF a >= b THEN a ELSE b
Min(a, b) == IF a <= b THEN a ELSE b

\* int(x) of a non-negative quantity held in ticks, as whole milliseconds;
\* a negative quantity truncates to a value <= 0.
IntMs(ticks) == IF ticks >= 0 THEN ticks \div TicksPerMs ELSE -((-ticks) \div TicksPerMs)

\* ------------------------------------------------- CircuitBreakerConfig
\* A small configuration: the thresholds are those of
\* tests/test_circuit_breaker.py less one failure, the two durations are
\* scaled down to a few milliseconds.
failure_threshold == 2
success_threshold == 2
recovery_timeout_ms == 2
monitoring_window_ms == 3

CLOSED == "closed"
OPEN == "open"
HALF_OPEN == "half_open"

Callers == 1..NumCallers

\* ------------------------------------------------------- CircuitBreaker
CBInitial ==
    [state |-> CLOSED, failures |-> <<>>, last_failure_time |-> 0,
     half_open_successes |-> 0, emitted |-> <<>>]

\* _transition_to: sets the state and notifies state_change, then the
\* event of the new state.  No comparison with the old state is made.
TransitionTo(c, new_state) ==
    [c EXCEPT !.state = new_state,
              !.emitted = c.emitted \o <<"state_change",
                  CASE new_state = OPEN -> "circuit_open"
                    [] new_state = CLOSED -> "circuit_closed"
                    [] OTHER -> "circuit_half_open">>]

CleanupOldFailures_KeepAll(c, t) == c

\* _cleanup_old_failures: keeps the timestamps t > now - monitoring_window.
CleanupOldFailures(c, t) ==
    LET cutoff == t - monitoring_window_ms * TicksPerMs
    IN  [c EXCEPT !.failures = SelectSeq(c.failures, LAMBDA x : x > cutoff)]

ShouldAttemptReset_Strict(c, t) ==
    (t - c.last_failure_time) > recovery_timeout_ms * TicksPerMs

\* _should_attempt_reset
ShouldAttemptReset(c, t) ==
    (t - c.last_failure_time) >= recovery_timeout_ms * TicksPerMs

\* _get_time_until_retry: max(0, int(recovery_timeout_ms - elapsed))
GetTimeUntilRetry(c, t) ==
    Max(0, IntMs(recovery_timeout_ms * TicksPerMs - (t - c.last_failure_time)))

Reset_KeepFailures(c) ==
    TransitionTo([c EXCEPT !.half_open_successes = 0], CLOSED)

\* _reset
Reset(c) ==
    TransitionTo([c EXCEPT !.failures = <<>>, !.half_open_successes = 0], CLOSED)

OnSuccess_ClearFailures(c, t) == [c EXCEPT !.failures = <<>>]

OnSuccess_AsFailure(c, t) ==
    [c EXCEPT !.failures = Append(@, t), !.last_failure_time = t]

\* _on_success
OnSuccess(c, t) ==
    LET c1 == IF c.state = HALF_OPEN
              THEN LET inc == [c EXCEPT !.half_open_successes = @ + 1]
                   IN  IF inc.half_open_successes >= success_threshold
                       THEN Reset(inc) ELSE inc
              ELSE c
    IN  CleanupOldFailures(c1, t)

OnFailure_ThresholdOnly(c, t) ==
    LET c2 == CleanupOldFailures([c EXCEPT !.failures = Append(@, t), !.last_failure_time = t], t)
    IN  IF Len(c2.failures) >= failure_threshold THEN TransitionTo(c2, OPEN) ELSE c2

\* _on_failure
OnFailure(c, t) ==
    LET c1 == [c EXCEPT !.failures = Append(@, t), !.last_failure_time = t]
    IN  IF c1.state = HALF_OPEN
        THEN [TransitionTo(c1, OPEN) EXCEPT !.half_open_successes = 0]
        ELSE LET c2 == CleanupOldFailures(c1, t)
             IN  IF Len(c2.failures) >= failure_threshold
                 THEN TransitionTo(c2, OPEN) ELSE c2

IsAllowingRequests_ClosedOnly(c, t) == c.state = CLOSED

\* is_allowing_requests
IsAllowingRequests(c, t) ==
    \/ c.state = CLOSED
    \/ c.state = HALF_OPEN
    \/ c.state = OPEN /\ ShouldAttemptReset(c, t)

\* get_stats: the length of the stored list, as it stands.
BreakerGetStats(c) ==
    [state |-> c.state, failures |-> Len(c.failures),
     last_failure_time |-> c.last_failure_time,
     half_open_successes |-> c.half_open_successes]

\* force_reset / force_open
ForceResetCB(c) == Reset(c)
ForceOpenCB(c, t) == TransitionTo([c EXCEPT !.last_failure_time = t], OPEN)

\* The part of execute() before `await fn()`: the OPEN check.
\* rejected: CircuitOpenError is raised and fn is not called.
ExecuteEnter(c, t) ==
    IF c.state = OPEN
    THEN IF ShouldAttemptReset(c, t)
         THEN [cb |-> TransitionTo(c, HALF_OPEN), rejected |-> FALSE, retry_after_ms |-> 0]
         ELSE [cb |-> c, rejected |-> TRUE, retry_after_ms |-> GetTimeUntilRetry(c, t)]
    ELSE [cb |-> c, rejected |-> FALSE, retry_after_ms |-> 0]

Quiet(c) == [c EXCEPT !.emitted = <<>>]

\* cbEvent: op is "invoked" (execute() passed the OPEN check and called fn),
\* "rejected" (execute() raised CircuitOpenError), "success" / "failure" (fn
\* finished and execute() returned / re-raised), "force_open", "force_reset".
NoEvent == [op |-> "none", caller |-> 0, at |-> 0, pre |-> CBInitial, retry_after_ms |-> 0]
Event(op, t, pre, ra) == [op |-> op, caller |-> t, at |-> now, pre |-> pre, retry_after_ms |-> ra]


\* -------------------------------------------------- RequestDeduplicator
\* DedupConfig.ttl_ms, scaled down to one millisecond.
dedup_ttl_ms == 1

DedupKeys == {"key1", "key2"}
Calls == 1..MaxCalls
ClearId == MaxCalls + 1      \* the task that runs clear(), as a lock waiter
NoSlot == [future |-> 0, timestamp |-> 0]

\* A future, and what a call returned or raised: kind is "none" (no future,
\* nothing returned yet), "pending", "result" or "error"; val names the
\* invocation (the call that made it) the result or the exception came from.
\* A call whose task was cancelled raises kind "cancelled".
NoOutcome == [kind |-> "none", val |-> 0]
Pending == [kind |-> "pending", val |-> 0]

\* pc of a dedupe() call:
\*   "new"        not started
\*   "plain"      deduplication disabled, suspended in `await request_fn()` (line 89)
\*   "lock_wait"  suspended in the first `async with self._lock` (line 91)
\*   "attached"   holding the lock, suspended in `await inflight.future` (line 102)
\*   "running"    owner, suspended in `await request_fn()` (line 115)
\*   "final_wait" owner, suspended in the `async with self._lock` of finally (line 127)
\*   "done"       returned or raised
NewCall == [pc |-> "new", key |-> "key1", future |-> NoOutcome, attached |-> 0, ret |-> NoOutcome]

\* History of a call: completed are the invocations that had finished when
\* the call started; dropped says how the slot the call created left the
\* inflight map while it was the owner's: "no", "ttl" (_cleanup_expired) or
\* "clear" (clear()).
NewHist == [completed |-> {}, dropped |-> "no"]

DedupInitial(enabled) ==
    [enabled |-> enabled, inflight |-> [k \in DedupKeys |-> NoSlot],
     total_requests |-> 0, deduplicated_requests |-> 0]

InitDedupWith(enabled) ==
    /\ dd = DedupInitial(enabled)
    /\ ddLock = [holder |-> 0, waiters |-> <<>>]
    /\ ddCall = [c \in Calls |-> NewCall]
    /\ ddHist = [c \in Calls |-> NewHist]

InitDedupIdle == InitDedupWith(TRUE)
InitDedup == \E e \in BOOLEAN : InitDedupWith(e)

CleanupExpired_Never(inflight, t) == inflight

\* _cleanup_expired: drops the slots with now - timestamp > ttl.
CleanupExpired(inflight, t) ==
    [k \in DedupKeys |->
        IF inflight[k] # NoSlot /\ t - inflight[k].timestamp > dedup_ttl_ms * TicksPerMs
        THEN NoSlot ELSE inflight[k]]

\* asyncio.Lock.acquire returns at once when the lock is free and nobody
\* waits; otherwise the caller joins the FIFO.
LockFree(l) == l.holder = 0 /\ l.waiters = <<>>
Enqueue(l, c) == [l EXCEPT !.waiters = Append(@, c)]
\* asyncio.Lock.release wakes the first waiter; until it runs nobody else
\* can take the lock (acquire sees a live waiter and queues).
Release(l) ==
    IF l.waiters = <<>> THEN [holder |-> 0, waiters |-> <<>>]
    ELSE [holder |-> Head(l.waiters), waiters |-> Tail(l.waiters)]

RemoveOwn_Never(inflight, k, c) == inflight
RemoveOwn_ByKey(inflight, k, c) == [inflight EXCEPT ![k] = NoSlot]

\* finally (lines 127-129): the slot is deleted only if it still holds
\* this call's future.
RemoveOwn(inflight, k, c) ==
    IF inflight[k] # NoSlot /\ inflight[k].future = c
    THEN [inflight EXCEPT ![k] = NoSlot] ELSE inflight

Lookup_PendingOnly(inflight, k) ==
    IF inflight[k] # NoSlot /\ ddCall[inflight[k].future].future.kind = "pending"
    THEN inflight[k] ELSE NoSlot

\* `if key in self._inflight: inflight = self._inflight[key]` (lines 98-99):
\* the slot is taken whatever the state of its future.
Lookup(inflight, k) == inflight[k]

SetFuture_ErrorAsResult(kind, c) == [kind |-> "result", val |-> c]

\* future.set_result(result) / future.set_exception(e) (lines 117-123).
SetFuture(kind, c) == [kind |-> kind, val |-> c]

DedupGetStats_PerOperation(d) ==
    [total_requests |-> d.total_requests,
     deduplicated_requests |-> d.deduplicated_requests,
     dedup_rate |-> IF d.total_requests > d.deduplicated_requests
                    THEN [num |-> d.deduplicated_requests,
                          den |-> d.total_requests - d.deduplicated_requests]
                    ELSE [num |-> 0, den |-> 1],
     inflight_count |-> Cardinality({k \in DedupKeys : d.inflight[k] # NoSlot})]

\* get_stats; dedup_rate as the fraction num / den.
DedupGetStats(d) ==
    [total_requests |-> d.total_requests,
     deduplicated_requests |-> d.deduplicated_requests,
     dedup_rate |-> IF d.total_requests > 0
                    THEN [num |-> d.deduplicated_requests, den |-> d.total_requests]
                    ELSE [num |-> 0, den |-> 1],
     inflight_count |-> Cardinality({k \in DedupKeys : d.inflight[k] # NoSlot})]

OpsCompleted == {o \in Calls : ddCall[o].pc \in {"final_wait", "done"} /\ ddCall[o].attached = 0}

MarkDropped(before, after, how) ==
    [c \in Calls |->
        IF \E k \in DedupKeys : before[k].future = c /\ after[k].future # c
        THEN [ddHist[c] EXCEPT !.dropped = how] ELSE ddHist[c]]

\* Lines 92-111 for call c with key k, entered with the lock held (l is the
\* lock as it stands once c holds it).
CriticalSection(c, k, l, hist) ==
    LET live == CleanupExpired(dd.inflight, now)
        counted == [dd EXCEPT !.total_requests = @ + 1]
        found == Lookup(live, k)
    IN  IF found # NoSlot
        THEN LET fut == ddCall[found.future].future
             IN  /\ dd' = [counted EXCEPT !.inflight = live, !.deduplicated_requests = @ + 1]
                 /\ ddHist' = [MarkDropped(dd.inflight, live, "ttl") EXCEPT ![c] = hist]
                 /\ IF fut.kind = "pending"
                    THEN /\ ddCall' = [ddCall EXCEPT ![c].pc = "attached", ![c].key = k,
                                                      ![c].attached = live[k].future]
                         /\ ddLock' = l
                    ELSE /\ ddCall' = [ddCall EXCEPT ![c].pc = "done", ![c].key = k,
                                                      ![c].attached = live[k].future,
                                                      ![c].ret = fut]
                         /\ ddLock' = Release(l)
        ELSE /\ dd' = [counted EXCEPT !.inflight = [live EXCEPT ![k] = [future |-> c, timestamp |-> now]]]
             /\ ddHist' = [MarkDropped(dd.inflight, live, "ttl") EXCEPT ![c] = hist]
             /\ ddCall' = [ddCall EXCEPT ![c].pc = "running", ![c].key = k, ![c].future = Pending]
             /\ ddLock' = Release(l)

\* dedupe(key, request_fn) is called.  Calls are numbered in the order in
\* which they are made.
DedupeStart(c, k) ==
    /\ ddCall[c].pc = "new"
    /\ \A b \in Calls : b < c => ddCall[b].pc # "new"
    \* the keys are interchangeable: the first call is the one for "key1"
    /\ (\A b \in Calls : ddCall[b].pc = "new") => k = "key1"
    /\ LET hist == [completed |-> OpsCompleted, dropped |-> "no"]
       IN  IF ~dd.enabled
           THEN /\ ddCall' = [ddCall EXCEPT ![c].pc = "plain", ![c].key = k]
                /\ ddHist' = [ddHist EXCEPT ![c] = hist]
                /\ UNCHANGED <<dd, ddLock>>
           ELSE IF LockFree(ddLock)
           THEN CriticalSection(c, k, [holder |-> c, waiters |-> <<>>], hist)
           ELSE /\ ddCall' = [ddCall EXCEPT ![c].pc = "lock_wait", ![c].key = k]
                /\ ddLock' = Enqueue(ddLock, c)
                /\ ddHist' = [ddHist EXCEPT ![c] = hist]
                /\ UNCHANGED dd
    /\ UNCHANGED <<now, breakerVars, cacheVars, clientVars, retryVars, evalVars, backoffVars>>

\* A call woken by the release of the lock runs lines 92-111.
DedupeLocked(c) ==
    /\ ddCall[c].pc = "lock_wait"
    /\ ddLock.holder = c
    /\ CriticalSection(c, ddCall[c].key, ddLock, ddHist[c])
    /\ UNCHANGED <<now, breakerVars, cacheVars, clientVars, retryVars, evalVars, backoffVars>>

\* The future a waiter awaits is done: it returns the result or raises the
\* exception, leaving `async with` (the lock is released).
DedupeResume(c) ==
    /\ ddCall[c].pc = "attached"
    /\ ddCall[ddCall[c].attached].future.kind \in {"result", "error"}
    /\ ddCall' = [ddCall EXCEPT ![c].pc = "done", ![c].ret = ddCall[ddCall[c].attached].future]
    /\ ddLock' = Release(ddLock)
    /\ UNCHANGED <<now, breakerVars, cacheVars, dd, ddHist, clientVars, retryVars, evalVars, backoffVars>>

\* request_fn() of the owner returns or raises: the future is resolved
\* (lines 117-118, 122-123) and finally asks for the lock.
OperationCompletes(c, kind) ==
    /\ ddCall[c].pc = "running"
    /\ LET resolved == [ddCall EXCEPT ![c].future = SetFuture(kind, c),
                                      ![c].ret = [kind |-> kind, val |-> c]]
       IN  IF LockFree(ddLock)
           THEN /\ dd' = [dd EXCEPT !.inflight = RemoveOwn(@, ddCall[c].key, c)]
                /\ ddCall' = [resolved EXCEPT ![c].pc = "done"]
                /\ UNCHANGED ddLock
           ELSE /\ ddCall' = [resolved EXCEPT ![c].pc = "final_wait"]
                /\ ddLock' = Enqueue(ddLock, c)
                /\ UNCHANGED dd
    /\ UNCHANGED <<now, breakerVars, cacheVars, ddHist, clientVars, retryVars, evalVars, backoffVars>>

\* The task of the owner is cancelled while it is suspended in
\* `await request_fn()` (line 115): CancelledError is no Exception, so the
\* except clause (lines 120-124) is passed over and the future stays
\* pending; finally asks for the lock.
OwnerCancelled(c) ==
    /\ ddCall[c].pc = "running"
    /\ LET raised == [ddCall EXCEPT ![c].ret = [kind |-> "cancelled", val |-> c]]
       IN  IF LockFree(ddLock)
           THEN /\ dd' = [dd EXCEPT !.inflight = RemoveOwn(@, ddCall[c].key, c)]
                /\ ddCall' = [raised EXCEPT ![c].pc = "done"]
                /\ UNCHANGED ddLock
           ELSE /\ ddCall' = [raised EXCEPT ![c].pc = "final_wait"]
                /\ ddLock' = Enqueue(ddLock, c)
                /\ UNCHANGED dd
    /\ UNCHANGED <<now, breakerVars, cacheVars, ddHist, clientVars, retryVars, evalVars, backoffVars>>

\* The owner obtains the lock in finally, deletes its slot and leaves.
DedupeFinally(c) ==
    /\ ddCall[c].pc = "final_wait"
    /\ ddLock.holder = c
    /\ dd' = [dd EXCEPT !.inflight = RemoveOwn(@, ddCall[c].key, c)]
    /\ ddCall' = [ddCall EXCEPT ![c].pc = "done"]
    /\ ddLock' = Release(ddLock)
    /\ UNCHANGED <<now, breakerVars, cacheVars, ddHist, clientVars, retryVars, evalVars, backoffVars>>

\* Deduplication disabled: request_fn() returns or raises (line 89).
PlainCompletes(c, kind) ==
    /\ ddCall[c].pc = "plain"
    /\ ddCall' = [ddCall EXCEPT ![c].pc = "done", ![c].ret = [kind |-> kind, val |-> c]]
    /\ UNCHANGED <<now, breakerVars, cacheVars, dd, ddLock, ddHist, clientVars, retryVars, evalVars, backoffVars>>

\* clear(): takes the lock and empties the inflight map.
ClearWaiting == \E i \in DOMAIN ddLock.waiters : ddLock.waiters[i] = ClearId

DedupClear ==
    /\ ~ClearWaiting /\ ddLock.holder # ClearId
    /\ IF LockFree(ddLock)
       THEN /\ dd' = [dd EXCEPT !.inflight = [k \in DedupKeys |-> NoSlot]]
            /\ ddHist' = MarkDropped(dd.inflight, [k \in DedupKeys |-> NoSlot], "clear")
            /\ UNCHANGED ddLock
       ELSE /\ ddLock' = Enqueue(ddLock, ClearId)
            /\ UNCHANGED <<dd, ddHist>>
    /\ UNCHANGED <<now, breakerVars, cacheVars, ddCall, clientVars, retryVars, evalVars, backoffVars>>

DedupClearLocked ==
    /\ ddLock.holder = ClearId
    /\ dd' = [dd EXCEPT !.inflight = [k \in DedupKeys |-> NoSlot]]
    /\ ddHist' = MarkDropped(dd.inflight, [k \in DedupKeys |-> NoSlot], "clear")
    /\ ddLock' = Release(ddLock)
    /\ UNCHANGED <<now, breakerVars, cacheVars, ddCall, clientVars, retryVars, evalVars, backoffVars>>

DedupTick ==
    /\ now < DedupMaxTime
    /\ now' = now + 1
    /\ UNCHANGED <<breakerVars, dedupVars, cacheVars, clientVars, retryVars, evalVars, backoffVars>>

NextDedup ==
    \/ \E c \in Calls, k \in DedupKeys : DedupeStart(c, k)
    \/ \E c \in Calls : DedupeLocked(c)
    \/ \E c \in Calls : DedupeResume(c)
    \/ \E c \in Calls, kind \in {"result", "error"} : OperationCompletes(c, kind)
    \/ \E c \in Calls : DedupeFinally(c)
    \/ \E c \in Calls, kind \in {"result", "error"} : PlainCompletes(c, kind)
    \/ DedupClear
    \/ DedupClearLocked
    \/ DedupTick


\* ------------------------------------------------------------ FlagCache
\* CacheConfig.ttl_ms / stale_ttl_ms: the 100 ms / 500 ms of
\* tests/test_cache.py scaled down to 1 ms / 2 ms.
cache_ttl_ms == 1
cache_stale_ttl_ms == 2

CacheKeys == {"flags"}
FlagKeys == {"a", "b"}
\* The flag dictionaries the model stores: Dict[str, bool] over FlagKeys.
FlagSets ==
    {[k \in {} |-> TRUE], [k \in {"a"} |-> TRUE], [k \in {"a", "b"} |-> (k = "b")]}
NoFlags == [k \in {} |-> TRUE]

NoEntry == [present |-> FALSE, value |-> NoFlags, timestamp |-> 0, stale |-> FALSE]
Entry(flags, t, stale) == [present |-> TRUE, value |-> flags, timestamp |-> t, stale |-> stale]
NotFound == [found |-> FALSE, flags |-> NoFlags, stale |-> FALSE]
CacheResult(flags, stale) == [found |-> TRUE, flags |-> flags, stale |-> stale]

NoSaved == [present |-> FALSE, value |-> NoFlags, timestamp |-> 0]
NoFile == [kind |-> "no_file", entries |-> [k \in CacheKeys |-> NoSaved]]
Garbage == [kind |-> "garbage", entries |-> [k \in CacheKeys |-> NoSaved]]
\* A file that parses as JSON and whose "entries" list holds a well-formed
\* entry (value f, timestamp ts) followed by an item that is not a
\* [key, dict] pair.
Malformed(f, ts) ==
    [kind |-> "malformed",
     entries |-> [k \in CacheKeys |-> [present |-> TRUE, value |-> f, timestamp |-> ts]]]

CacheSize(entries) == Cardinality({k \in CacheKeys : entries[k].present})

CacheInitial(persist) ==
    [persist_path |-> persist,
     entries |-> [k \in CacheKeys |-> NoEntry],
     stats |-> [hits |-> 0, misses |-> 0, stale_hits |-> 0, size |-> 0]]

\* age_ms = (time.time() - entry.timestamp) * 1000, in ticks
AgeOf(e, t) == t - e.timestamp
TtlTicks == cache_ttl_ms * TicksPerMs
StaleTtlTicks == cache_stale_ttl_ms * TicksPerMs

CacheGet_KeepExpired(c, key, t) ==
    LET e == c.entries[key]
    IN  IF ~e.present
        THEN [cache |-> [c EXCEPT !.stats.misses = @ + 1], result |-> NotFound]
        ELSE IF AgeOf(e, t) < TtlTicks
        THEN [cache |-> [c EXCEPT !.stats.hits = @ + 1], result |-> CacheResult(e.value, FALSE)]
        ELSE IF AgeOf(e, t) < StaleTtlTicks
        THEN [cache |-> [c EXCEPT !.stats.stale_hits = @ + 1], result |-> CacheResult(e.value, TRUE)]
        ELSE [cache |-> [c EXCEPT !.stats.misses = @ + 1], result |-> NotFound]

CacheGet_StaleAsHit(c, key, t) ==
    LET r == CacheGet_KeepExpired(c, key, t)
    IN  IF r.result.found /\ r.result.stale
        THEN [cache |-> [c EXCEPT !.stats.hits = @ + 1], result |-> r.result]
        ELSE r

\* get
CacheGet(c, key, t) ==
    LET e == c.entries[key]
    IN  IF ~e.present
        THEN [cache |-> [c EXCEPT !.stats.misses = @ + 1], result |-> NotFound]
        ELSE IF AgeOf(e, t) < TtlTicks
        THEN [cache |-> [c EXCEPT !.stats.hits = @ + 1], result |-> CacheResult(e.value, FALSE)]
        ELSE IF AgeOf(e, t) < StaleTtlTicks
        THEN [cache |-> [c EXCEPT !.stats.stale_hits = @ + 1], result |-> CacheResult(e.value, TRUE)]
        ELSE LET removed == [c.entries EXCEPT ![key] = NoEntry]
             IN  [cache |-> [c EXCEPT !.entries = removed,
                                      !.stats.size = CacheSize(removed),
                                      !.stats.misses = @ + 1],
                  result |-> NotFound]

\* set, without the write-through
CacheSet(c, key, flags, t) ==
    LET put == [c.entries EXCEPT ![key] = Entry(flags, t, FALSE)]
    IN  [c EXCEPT !.entries = put, !.stats.size = CacheSize(put)]

\* has_fresh / has_any
HasFresh(c, key, t) == c.entries[key].present /\ AgeOf(c.entries[key], t) < TtlTicks
HasAny(c, key, t) == c.entries[key].present /\ AgeOf(c.entries[key], t) < StaleTtlTicks

\* clear
CacheClear(c) == [c EXCEPT !.entries = [k \in CacheKeys |-> NoEntry], !.stats.size = 0]

\* The "entries" of the snapshot _persist writes: each key with its value
\* and raw timestamp (the stale flag is not written).
Snapshot(c) ==
    [kind |-> "snapshot",
     entries |-> [k \in CacheKeys |->
        IF c.entries[k].present
        THEN [present |-> TRUE, value |-> c.entries[k].value,
              timestamp |-> c.entries[k].timestamp]
        ELSE NoSaved]]

\* How the file system answers a write: done, refused before the file is
\* touched, or failed after the file was truncated.
IOResults == {"ok", "not_written", "truncated"}

Persist_Never(c, d, io) == d

\* _persist: the file afterwards, given the file system's answer.
Persist(c, d, io) ==
    IF ~c.persist_path THEN d
    ELSE CASE io = "ok" -> Snapshot(c)
           [] io = "truncated" -> Garbage
           [] OTHER -> d

\* _persist: what the file may hold afterwards.  Without a persist_path
\* nothing is written; a failure (swallowed) leaves the file as it was or,
\* when write_text fails part-way, unreadable.
PersistOutcomes(c, d) == {Persist(c, d, io) : io \in IOResults}

CacheLoad_StampedAtLoad(c, d, t) ==
    IF ~c.persist_path \/ d = NoFile \/ d = Garbage
    THEN [cache |-> c, ok |-> FALSE]
    ELSE LET loaded == [k \in CacheKeys |->
                          IF d.entries[k].present
                          THEN Entry(d.entries[k].value, t, FALSE)
                          ELSE c.entries[k]]
         IN  [cache |-> [c EXCEPT !.entries = loaded, !.stats.size = CacheSize(loaded)],
              ok |-> TRUE]

\* load: the success flag and the cache afterwards.
CacheLoad(c, d, t) ==
    IF ~c.persist_path \/ d = NoFile \/ d = Garbage
    THEN [cache |-> c, ok |-> FALSE]
    ELSE LET saved == d.entries
             admitted == {k \in CacheKeys :
                            saved[k].present /\ t - saved[k].timestamp < StaleTtlTicks}
             loaded == [k \in CacheKeys |->
                          IF k \in admitted
                          THEN Entry(saved[k].value, saved[k].timestamp,
                                     t - saved[k].timestamp >= TtlTicks)
                          ELSE c.entries[k]]
         IN  IF d.kind = "malformed"
             \* the loop raises at the malformed item: the entries before it
             \* are stored, line 223 is not reached, `except` returns False
             THEN [cache |-> [c EXCEPT !.entries = loaded], ok |-> FALSE]
             ELSE [cache |-> [c EXCEPT !.entries = loaded, !.stats.size = CacheSize(loaded)],
                   ok |-> TRUE]

\* get_stats / get_hit_rate: the rate as a fraction, 0 when nothing was read.
GetStats(c) == c.stats
GetHitRate(c) ==
    LET total == c.stats.hits + c.stats.stale_hits + c.stats.misses
    IN  IF total = 0 THEN [num |-> 0, den |-> 1]
        ELSE [num |-> c.stats.hits + c.stats.stale_hits, den |-> total]

\* What the model remembers of the most recent cache operation: the entry
\* it found under its key and the counters before it, what it returned,
\* how the file system answered its write; and of this instance: the keys
\* deleted by an expired read and not stored since, the number of get
\* calls and of those that returned flags.
NoCacheEvent ==
    [op |-> "none", key |-> "flags", at |-> 0, pre |-> NoEntry, result |-> NotFound,
     expired |-> {}, stats |-> CacheInitial(FALSE).stats, io |-> "none",
     gets |-> 0, found |-> 0, ok |-> TRUE]
CacheEvent(op, key, pre, result) ==
    [op |-> op, key |-> key, at |-> now, pre |-> pre.entries[key], result |-> result,
     expired |->
        CASE op = "get" /\ pre.entries[key].present /\ ~result.found ->
                cacheEvent.expired \cup {key}
          [] op = "set" -> cacheEvent.expired \ {key}
          [] OTHER -> cacheEvent.expired,
     stats |-> pre.stats, io |-> "none",
     gets |-> cacheEvent.gets + (IF op = "get" THEN 1 ELSE 0),
     found |-> cacheEvent.found + (IF op = "get" /\ result.found THEN 1 ELSE 0),
     ok |-> TRUE]

InitCacheWith(persist) ==
    /\ cache = CacheInitial(persist)
    /\ disk = NoFile
    /\ cacheEvent = NoCacheEvent

InitCacheIdle == InitCacheWith(FALSE)
InitCache == \E p \in BOOLEAN : InitCacheWith(p)

Gets(c) == c.stats.hits + c.stats.misses + c.stats.stale_hits

DoGet(key) ==
    /\ Gets(cache) < MaxGets
    /\ LET r == CacheGet(cache, key, now)
       IN  /\ cache' = r.cache
           /\ cacheEvent' = CacheEvent("get", key, cache, r.result)
    /\ UNCHANGED <<now, disk, breakerVars, dedupVars, clientVars, retryVars, evalVars, backoffVars>>

DoSet(key, flags) ==
    /\ cache' = CacheSet(cache, key, flags, now)
    /\ \E io \in (IF cache.persist_path THEN IOResults ELSE {"none"}) :
         /\ disk' = Persist(cache', disk, io)
         /\ cacheEvent' = [CacheEvent("set", key, cache, NotFound) EXCEPT !.io = io]
    /\ UNCHANGED <<now, breakerVars, dedupVars, clientVars, retryVars, evalVars, backoffVars>>

DoClear ==
    /\ cache' = CacheClear(cache)
    /\ cacheEvent' = CacheEvent("clear", "flags", cache, NotFound)
    /\ UNCHANGED <<now, disk, breakerVars, dedupVars, clientVars, retryVars, evalVars, backoffVars>>

DoLoad ==
    /\ cache' = CacheLoad(cache, disk, now).cache
    /\ cacheEvent' = [CacheEvent("load", "flags", cache, NotFound)
                        EXCEPT !.ok = CacheLoad(cache, disk, now).ok]
    /\ UNCHANGED <<now, disk, breakerVars, dedupVars, clientVars, retryVars, evalVars, backoffVars>>

\* close: a final _persist when a persist_path is configured.
DoClose ==
    /\ \E io \in (IF cache.persist_path THEN IOResults ELSE {"none"}) :
         /\ disk' = Persist(cache, disk, io)
         /\ cacheEvent' = [CacheEvent("close", "flags", cache, NotFound) EXCEPT !.io = io]
    /\ UNCHANGED <<now, cache, breakerVars, dedupVars, clientVars, retryVars, evalVars, backoffVars>>

\* The program starts again: a new FlagCache with the same configuration,
\* then load().
DoRestart ==
    /\ cache' = CacheLoad(CacheInitial(cache.persist_path), disk, now).cache
    /\ cacheEvent' = [CacheEvent("restart", "flags", cache, NotFound)
                        EXCEPT !.expired = {}, !.gets = 0, !.found = 0,
                               !.ok = CacheLoad(CacheInitial(cache.persist_path), disk, now).ok]
    /\ UNCHANGED <<now, disk, breakerVars, dedupVars, clientVars, retryVars, evalVars, backoffVars>>

\* Time passes; the operation remembered is no longer the most recent step.
CacheTick ==
    /\ now < CacheMaxTime
    /\ now' = now + 1
    /\ cacheEvent' = [NoCacheEvent EXCEPT !.expired = cacheEvent.expired,
                                          !.gets = cacheEvent.gets,
                                          !.found = cacheEvent.found]
    /\ UNCHANGED <<breakerVars, dedupVars, cache, disk, clientVars, retryVars, evalVars, backoffVars>>

\* Something other than this cache writes the file at persist_path: it
\* now holds a list of entries with a malformed item after a well-formed one.
FileDamaged(f) ==
    /\ cache.persist_path
    /\ disk' = Malformed(f, now)
    /\ cacheEvent' = [NoCacheEvent EXCEPT !.expired = cacheEvent.expired,
                                          !.gets = cacheEvent.gets,
                                          !.found = cacheEvent.found]
    /\ UNCHANGED <<now, breakerVars, dedupVars, cache, clientVars, retryVars, evalVars, backoffVars>>

NextCache ==
    \/ \E k \in CacheKeys : DoGet(k)
    \/ \E k \in CacheKeys, f \in FlagSets : DoSet(k, f)
    \/ DoClear
    \/ DoLoad
    \/ DoClose
    \/ DoRestart
    \/ CacheTick


\* ------------------------------------------------------- RollgateClient
\* RetryConfig.max_retries
max_retries == 1

NoUser == "none"
Users == {"u1"}
NoEtag == "none"
Etags == {"v1"}

ClientTasks == {1}                  \* the task that calls the public methods
PollTask == 0                       \* the task of _start_polling
\* a poll task still running whose handle a later init() has overwritten
LostPollTask == 2
Fetchers == ClientTasks \cup {PollTask, LostPollTask}

\* What a fetch attempt can raise: AuthenticationError (401, 403), the
\* retryable RollgateError of a 5xx, an exception of the HTTP client whose
\* text names the network, any other exception.
ErrorKinds == {"auth", "server", "network", "other"}

\* is_retryable_error
IsRetryableError(e) == e \in {"server", "network"}

\* The flag sets the service sends.
ServerFlagSets == FlagSets \ {NoFlags}

\* Answers of the flags endpoint, as _single_fetch tells them apart.
Responses ==
    [status : {"ok"}, flags : ServerFlagSets, etag : Etags \cup {NoEtag}, error : {"none"}]
    \cup [status : {"not_modified"}, flags : {NoFlags}, etag : {NoEtag}, error : {"none"}]
    \cup [status : {"error"}, flags : {NoFlags}, etag : {NoEtag}, error : ErrorKinds]

Caught_CircuitOpenOnly(exc) == exc = "circuit_open"

\* The except clauses of _fetch_flags: CircuitOpenError and Exception.  A
\* CancelledError ("cancelled") is a BaseException and passes through.
Caught(exc) == exc \in ErrorKinds \cup {"circuit_open"}

\* pc of a fetcher: "idle" (a poll task: "off" before it is created,
\* "sleeping" in asyncio.sleep, "cancelled"), "http" (suspended in
\* `await self._http_client.get`), "backoff" (suspended in the sleep of
\* fetch_with_retry).
IdleTask == [pc |-> "idle", op |-> "none", attempt |-> 0, user |-> NoUser]

ClientInitial(mode) ==
    [flags |-> NoFlags, initialized |-> FALSE, user_context |-> NoUser,
     last_etag |-> NoEtag, closing |-> FALSE, http |-> "none",
     mode |-> mode, sse |-> "off", lost_sse |-> "off"]

NoLast ==
    [op |-> "none", kind |-> "none", outcome |-> "none",
     pre |-> NoFlags, entry |-> NoEntry, at |-> 0, post |-> NoFlags, io |-> "none"]

ClientEvent(name) == [name |-> name, key |-> "", new |-> FALSE, old |-> "none"]
OldValue(flags, k) == IF k \in DOMAIN flags THEN (IF flags[k] THEN "true" ELSE "false") ELSE "none"
NewValue(flags, k) == IF flags[k] THEN "true" ELSE "false"

FlagChanged_ExistingOnly(old, new, k) ==
    IF k \in DOMAIN new /\ k \in DOMAIN old /\ old[k] # new[k]
    THEN <<[name |-> "flag_changed", key |-> k, new |-> new[k], old |-> OldValue(old, k)]>>
    ELSE <<>>

\* The flag_changed events of _update_flags, in the order of the new
\* dictionary's keys.
FlagChanged(old, new, k) ==
    IF k \in DOMAIN new /\ OldValue(old, k) # NewValue(new, k)
    THEN <<[name |-> "flag_changed", key |-> k, new |-> new[k], old |-> OldValue(old, k)]>>
    ELSE <<>>

\* _update_flags
UpdateFlags(cl, new) ==
    [client |-> [cl EXCEPT !.flags = new],
     events |-> FlagChanged(cl.flags, new, "a") \o FlagChanged(cl.flags, new, "b")
                \o <<ClientEvent("flags_updated")>>]

UseCachedFallback_Ignore(cl, c, t) ==
    [client |-> cl, cache |-> CacheGet(c, "flags", t).cache, events |-> <<>>]

\* _use_cached_fallback
UseCachedFallback(cl, c, t) ==
    LET got == CacheGet(c, "flags", t)
    IN  IF got.result.found
        THEN LET up == UpdateFlags(cl, got.result.flags)
             IN  [client |-> up.client, cache |-> got.cache,
                  events |-> up.events \o
                      (IF got.result.stale THEN <<ClientEvent("flags_stale")>> ELSE <<>>)]
        ELSE [client |-> cl, cache |-> got.cache, events |-> <<>>]

IsEnabled_NoInitCheck(cl, flag_key, default_value) ==
    IF flag_key \in DOMAIN cl.flags THEN cl.flags[flag_key] ELSE default_value

\* is_enabled
IsEnabled(cl, flag_key, default_value) ==
    IF ~cl.initialized THEN default_value
    ELSE IF flag_key \in DOMAIN cl.flags THEN cl.flags[flag_key] ELSE default_value

\* The circuit_* events the breaker forwards to the client's subscribers.
Forwarded(c) == SelectSeq(c.emitted, LAMBDA e : e # "state_change")
BreakerEvents(c) == [i \in 1..Len(Forwarded(c)) |-> ClientEvent(Forwarded(c)[i])]

EntryPresent(c) == c.entries["flags"].present

InitClientWith(mode) ==
    /\ client = ClientInitial(mode)
    /\ clTask = [t \in Fetchers |-> IF t \in {PollTask, LostPollTask}
                                  THEN [IdleTask EXCEPT !.pc = "off"] ELSE IdleTask]
    /\ clLast = NoLast
    /\ clEmitted = <<>>
    /\ clOps = 0
    /\ clHist = [everCached |-> FALSE, everFetched |-> FALSE]

InitClientIdle == InitClientWith("none")

\* Where a fetcher goes when its _fetch_flags is over.
Rest(t) ==
    IF t \in {PollTask, LostPollTask} THEN [IdleTask EXCEPT !.pc = "sleeping"] ELSE IdleTask

\* The end of one _fetch_flags of fetcher t and what follows it without
\* suspension: for init, the rest of init (initialized, the background task,
\* `ready`).  cl0 and c0 are the client and the cache when the fetch ended
\* (before any fallback), cl and c as _fetch_flags leaves them; exc is the
\* exception leaving it ("none": it returned).
Finish(t, op, kind, exc, cl0, c0, cl, c, breaker, events) ==
    LET returned == exc = "none"
        isInit == op = "init" /\ returned
        cl2 == IF isInit
               THEN [cl EXCEPT !.initialized = TRUE,
                               !.sse = IF cl.mode = "stream" THEN (IF cl.closing THEN "ended" ELSE "on") ELSE @,
                               !.lost_sse = IF cl.mode = "stream" /\ cl.sse = "on" THEN "on" ELSE @]
               ELSE cl
        startPoll == isInit /\ cl.mode = "poll"
        \* `self._poll_task = ...` (line 195) drops the handle of a task that runs
        losesPoll == startPoll /\ clTask[PollTask].pc \in {"sleeping", "http", "backoff"}
    IN  /\ client' = cl2
        /\ cache' = c
        /\ cb' = breaker
        /\ clTask' = [clTask EXCEPT ![t] = Rest(t),
                                    ![PollTask] = IF t = PollTask THEN Rest(t)
                                                  ELSE IF startPoll
                                                  THEN [IdleTask EXCEPT !.pc =
                                                         IF cl.closing THEN "ended"
                                                         ELSE "sleeping"]
                                                  ELSE @,
                                    ![LostPollTask] = IF t = LostPollTask THEN Rest(t)
                                                      ELSE IF losesPoll THEN clTask[PollTask]
                                                      ELSE @]
        /\ clEmitted' = events \o (IF isInit THEN <<ClientEvent("ready")>> ELSE <<>>)
        /\ clLast' = [op |-> op, kind |-> kind,
                      outcome |-> IF returned THEN "returned" ELSE "raised",
                      pre |-> cl0.flags, entry |-> c0.entries["flags"], at |-> now,
                      post |-> cl2.flags, io |-> "none"]
        /\ clHist' = [clHist EXCEPT
                        !.everCached = @ \/ EntryPresent(c0) \/ EntryPresent(c),
                        !.everFetched = @ \/ kind = "ok"]

FetchFailed_PerAttempt(t, op, e, cl, c, breaker, events) ==
    LET b2 == OnFailure(IF IsRetryableError(e) THEN OnFailure(breaker, now) ELSE breaker, now)
    IN  IF Caught(e)
        THEN LET fb == UseCachedFallback(cl, c, now)
             IN  Finish(t, op, "failed", "none", cl, c, fb.client, fb.cache, b2,
                        events \o BreakerEvents(b2)
                        \o <<[ClientEvent("error") EXCEPT !.key = e]>> \o fb.events)
        ELSE Finish(t, op, "failed", e, cl, c, cl, c, b2, events \o BreakerEvents(b2))

\* The fetch of fetcher t ended in exception e after the retries: execute
\* records the failure and re-raises, _fetch_flags handles it.
FetchFailed(t, op, e, cl, c, breaker, events) ==
    LET b2 == OnFailure(breaker, now)
    IN  IF Caught(e)
        THEN LET fb == UseCachedFallback(cl, c, now)
             IN  Finish(t, op, "failed", "none", cl, c, fb.client, fb.cache, b2,
                        events \o BreakerEvents(b2)
                        \o <<[ClientEvent("error") EXCEPT !.key = e]>> \o fb.events)
        ELSE Finish(t, op, "failed", e, cl, c, cl, c, b2, events \o BreakerEvents(b2))

\* One attempt of fetch_with_retry begins: _single_fetch up to its await.
\* Without an open HTTP client the attempt raises at once (no client before
\* init, a closed one after close), an error that is not retried.
Attempt(t, op, attempt, cl, c, breaker, events) ==
    IF cl.http = "open"
    THEN /\ client' = cl
         /\ cache' = c
         /\ cb' = breaker
         /\ clTask' = [clTask EXCEPT ![t] =
                [pc |-> "http", op |-> op, attempt |-> attempt, user |-> cl.user_context]]
         /\ clEmitted' = events
         /\ clLast' = NoLast
         /\ clHist' = [clHist EXCEPT !.everCached = @ \/ EntryPresent(c)]
    ELSE FetchFailed(t, op, "other", cl, c, breaker, events)

FetchFlags_NoPreCheck(t, op, cl, c, events) ==
    Attempt(t, op, 0, cl, c, Quiet(cb), events)

\* _fetch_flags up to its first suspension.
FetchFlags(t, op, cl, c, events) ==
    IF ~IsAllowingRequests(cb, now)
    THEN LET fb == UseCachedFallback(cl, c, now)
         IN  Finish(t, op, "skipped", "none", cl, c, fb.client, fb.cache, Quiet(cb),
                    events \o fb.events)
    ELSE LET enter == ExecuteEnter(Quiet(cb), now)
         IN  IF enter.rejected
             THEN IF Caught("circuit_open")
                  THEN LET fb == UseCachedFallback(cl, c, now)
                       IN  Finish(t, op, "skipped", "none", cl, c, fb.client, fb.cache,
                                  enter.cb, events \o fb.events)
                  ELSE Finish(t, op, "skipped", "circuit_open", cl, c, cl, c, enter.cb, events)
             ELSE Attempt(t, op, 0, cl, c, enter.cb, events \o BreakerEvents(enter.cb))

\* init(user), on a client that was not initialised before.
Init_(t, user) ==
    /\ clTask[t].pc = "idle"
    /\ clOps < MaxOps
    /\ client.http = "none"
    /\ LET loaded == CacheLoad(cache, disk, now).cache
           got == CacheGet(loaded, "flags", now)
           cl == [client EXCEPT !.user_context = user, !.http = "open",
                                !.flags = IF got.result.found THEN got.result.flags ELSE @]
           events == IF got.result.found /\ got.result.stale
                     THEN <<ClientEvent("flags_stale")>> ELSE <<>>
       IN  FetchFlags(t, "init", cl, got.cache, events)
    /\ clOps' = clOps + 1
    /\ UNCHANGED <<now, cbPc, cbEvent, dedupVars, disk, cacheEvent, retryVars, evalVars, backoffVars>>

\* refresh()
Refresh(t) ==
    /\ clTask[t].pc = "idle"
    /\ clOps < MaxOps
    /\ FetchFlags(t, "refresh", client, cache, <<>>)
    /\ clOps' = clOps + 1
    /\ UNCHANGED <<now, cbPc, cbEvent, dedupVars, disk, cacheEvent, retryVars, evalVars, backoffVars>>

\* identify(user)
Identify(t, user) ==
    /\ clTask[t].pc = "idle"
    /\ clOps < MaxOps
    /\ FetchFlags(t, "identify", [client EXCEPT !.user_context = user], cache, <<>>)
    /\ clOps' = clOps + 1
    /\ UNCHANGED <<now, cbPc, cbEvent, dedupVars, disk, cacheEvent, retryVars, evalVars, backoffVars>>

\* reset()
Reset_(t) ==
    /\ clTask[t].pc = "idle"
    /\ clOps < MaxOps
    /\ FetchFlags(t, "reset", [client EXCEPT !.user_context = NoUser], cache, <<>>)
    /\ clOps' = clOps + 1
    /\ UNCHANGED <<now, cbPc, cbEvent, dedupVars, disk, cacheEvent, retryVars, evalVars, backoffVars>>

\* _start_polling: the sleep is over and the loop fetches.
PollTick ==
    /\ clTask[PollTask].pc = "sleeping"
    /\ ~client.closing
    /\ clOps < MaxOps
    /\ FetchFlags(PollTask, "poll", client, cache, <<>>)
    /\ clOps' = clOps + 1
    /\ UNCHANGED <<now, cbPc, cbEvent, dedupVars, disk, cacheEvent, retryVars, evalVars, backoffVars>>

\* init(user) on a client that init() was called on before: nothing in
\* init looks at _initialized, _poll_task or _sse_task.  The HTTP client is
\* replaced (the earlier one is left as it is).  One lost task of each kind
\* is followed.
Reinit(t, user) ==
    /\ clTask[t].pc = "idle"
    /\ clOps < MaxOps
    /\ client.http # "none"
    /\ clTask[LostPollTask].pc \in {"off", "ended"}
    /\ client.lost_sse # "on"
    /\ LET loaded == CacheLoad(cache, disk, now).cache
           got == CacheGet(loaded, "flags", now)
           cl == [client EXCEPT !.user_context = user, !.http = "open",
                                !.flags = IF got.result.found THEN got.result.flags ELSE @]
           events == IF got.result.found /\ got.result.stale
                     THEN <<ClientEvent("flags_stale")>> ELSE <<>>
       IN  FetchFlags(t, "init", cl, got.cache, events)
    /\ clOps' = clOps + 1
    /\ UNCHANGED <<now, cbPc, cbEvent, dedupVars, disk, cacheEvent, retryVars, evalVars, backoffVars>>

\* _start_polling of a lost task wakes from its sleep (lines 202-208): it
\* leaves the loop when close() has set _closing, else it fetches.
LostPollTick ==
    /\ clTask[LostPollTask].pc = "sleeping"
    /\ IF client.closing
       THEN /\ clTask' = [clTask EXCEPT ![LostPollTask] = [IdleTask EXCEPT !.pc = "ended"]]
            /\ clLast' = NoLast
            /\ clEmitted' = <<>>
            /\ UNCHANGED <<cb, cache, client, clHist, clOps>>
       ELSE /\ clOps < MaxOps
            /\ FetchFlags(LostPollTask, "poll", client, cache, <<>>)
            /\ clOps' = clOps + 1
    /\ UNCHANGED <<now, cbPc, cbEvent, dedupVars, disk, cacheEvent, retryVars, evalVars, backoffVars>>

\* The stream of a lost listener delivers a message (lines 230-239): the
\* listener leaves when close() has set _closing, else it applies the flags.
LostStreamMessage(f) ==
    /\ client.lost_sse = "on"
    /\ IF client.closing
       THEN /\ client' = [client EXCEPT !.lost_sse = "ended"]
            /\ clEmitted' = <<>>
            /\ UNCHANGED clHist
       ELSE LET up == UpdateFlags(client, f)
            IN  /\ client' = up.client
                /\ clEmitted' = up.events
                /\ clHist' = [clHist EXCEPT !.everFetched = TRUE]
    /\ clLast' = NoLast
    /\ UNCHANGED <<now, breakerVars, dedupVars, cacheVars, clTask, clOps, retryVars, evalVars, backoffVars>>

\* The flags endpoint answers the request of fetcher t.
Respond(t, r) ==
    /\ clTask[t].pc = "http"
    /\ LET op == clTask[t].op
       IN  CASE r.status = "ok" ->
                  LET cl == [client EXCEPT !.last_etag = IF r.etag # NoEtag THEN r.etag ELSE @]
                      b2 == OnSuccess(Quiet(cb), now)
                      c2 == CacheSet(cache, "flags", r.flags, now)
                      up == UpdateFlags(cl, r.flags)
                  IN  /\ Finish(t, op, "ok", "none", cl, c2, up.client, c2, b2,
                                BreakerEvents(b2) \o up.events)
                      /\ disk' \in PersistOutcomes(c2, disk)
             [] r.status = "not_modified" ->
                  LET b2 == OnSuccess(Quiet(cb), now)
                  IN  /\ Finish(t, op, "not_modified", "none", client, cache, client, cache,
                                b2, BreakerEvents(b2))
                      /\ disk' = disk
             [] OTHER ->
                  /\ disk' = disk
                  /\ IF IsRetryableError(r.error) /\ clTask[t].attempt < max_retries
                     THEN /\ clTask' = [clTask EXCEPT ![t].pc = "backoff"]
                          /\ clEmitted' = <<>>
                          /\ clLast' = NoLast
                          /\ UNCHANGED <<client, cache, cb, clHist>>
                     ELSE FetchFailed(t, op, r.error, client, cache, Quiet(cb), <<>>)
    /\ UNCHANGED <<now, cbPc, cbEvent, dedupVars, cacheEvent, clOps, retryVars, evalVars, backoffVars>>

\* The backoff sleep of fetch_with_retry is over: the next attempt.
BackoffDone(t) ==
    /\ clTask[t].pc = "backoff"
    /\ Attempt(t, clTask[t].op, clTask[t].attempt + 1, client, cache, Quiet(cb), <<>>)
    /\ UNCHANGED <<now, cbPc, cbEvent, dedupVars, disk, cacheEvent, clOps, retryVars, evalVars, backoffVars>>

\* _start_streaming: a message with a flags payload arrives.
StreamMessage(f) ==
    /\ client.sse = "on"
    /\ ~client.closing
    /\ LET up == UpdateFlags(client, f)
       IN  /\ client' = up.client
           /\ clEmitted' = up.events
    /\ clHist' = [clHist EXCEPT !.everFetched = TRUE]
    /\ clLast' = NoLast
    /\ UNCHANGED <<now, breakerVars, dedupVars, cacheVars, clTask, clOps, retryVars, evalVars, backoffVars>>

\* close(), taken as one step: cancels the background task, closes the HTTP
\* client, persists the cache.  A poll task is cancelled wherever it is
\* suspended; the CancelledError passes through _fetch_flags and execute
\* unrecorded.  Requests of callers still pending are answered as the
\* environment chooses.
Close ==
    /\ client' = [client EXCEPT !.closing = TRUE,
                                !.sse = IF @ = "on" THEN "cancelled" ELSE @,
                                !.http = IF @ = "open" THEN "closed" ELSE @]
    /\ clTask' = [clTask EXCEPT ![PollTask] =
                    IF @.pc = "off" THEN @ ELSE [IdleTask EXCEPT !.pc = "cancelled"]]
    /\ \E io \in (IF cache.persist_path THEN IOResults ELSE {"none"}) :
         /\ disk' = Persist(cache, disk, io)
         /\ clLast' = [NoLast EXCEPT !.op = "close", !.io = io]
    /\ clEmitted' = <<>>
    /\ UNCHANGED <<now, breakerVars, dedupVars, cache, cacheEvent, clHist, clOps, retryVars, evalVars, backoffVars>>

\* Time passes, a millisecond at a time.
ClientTick ==
    /\ now + TicksPerMs <= ClientMaxMs * TicksPerMs
    /\ now' = now + TicksPerMs
    /\ clEmitted' = <<>>
    /\ clLast' = NoLast
    /\ UNCHANGED <<breakerVars, dedupVars, cacheVars, client, clTask, clOps, clHist, retryVars, evalVars, backoffVars>>

NextClient ==
    \/ \E t \in ClientTasks, u \in Users \cup {NoUser} : Init_(t, u)
    \/ \E t \in ClientTasks : Refresh(t)
    \/ \E t \in ClientTasks, u \in Users : Identify(t, u)
    \/ \E t \in ClientTasks : Reset_(t)
    \/ PollTick
    \/ \E t \in Fetchers, r \in Responses : Respond(t, r)
    \/ \E t \in Fetchers : BackoffDone(t)
    \/ \E f \in ServerFlagSets : StreamMessage(f)
    \/ Close
    \/ ClientTick

\* A snapshot left by an earlier run of the program, written at time 0.
EarlierSnapshot(f) ==
    [kind |-> "snapshot",
     entries |-> [k \in CacheKeys |-> [present |-> TRUE, value |-> f, timestamp |-> 0]]]

\* The configurations explored: RollgateConfig.enable_streaming /
\* refresh_interval_ms (mode) and CacheConfig.persist_path, which comes with
\* an earlier snapshot in place.
ClientConfigs ==
    {[mode |-> "none", persist |-> TRUE],
     [mode |-> "poll", persist |-> FALSE],
     [mode |-> "stream", persist |-> FALSE]}

InitClient ==
    \E cfg \in ClientConfigs :
        /\ InitClientWith(cfg.mode)
        /\ cache = CacheInitial(cfg.persist)
        /\ disk = IF cfg.persist THEN EarlierSnapshot([k \in {"a"} |-> TRUE]) ELSE NoFile
        /\ cacheEvent = NoCacheEvent

\* ------------------------------------------------------------- retry
\* What is_retryable_error looks for in the lower-cased message of an
\* error: a message is the set of these words it contains.  "connection" is
\* one of the network indicators, "503" one of the listed server codes,
\* "404" one of the listed client codes; "501" is a 5xx status is_retryable_error
\* does not list.
Words == {"connection", "503", "501", "429", "404"}

Messages == SUBSET Words

NoError == [rollgate |-> FALSE, retryable |-> FALSE, message |-> {"none"}]

\* The exceptions fn may raise: a RollgateError with its retryable flag, or
\* any other Exception.
Errors ==
    [rollgate : {TRUE}, retryable : BOOLEAN, message : Messages]
    \cup [rollgate : {FALSE}, retryable : {FALSE}, message : Messages]

is_retryable_always(error) == TRUE

\* is_retryable_error(error)
is_retryable_error(error) ==
    IF error.rollgate THEN error.retryable
    ELSE IF "connection" \in error.message THEN TRUE
    ELSE IF "503" \in error.message THEN TRUE
    ELSE IF "429" \in error.message THEN TRUE
    ELSE IF "404" \in error.message THEN FALSE
    ELSE FALSE

NoResult == [success |-> FALSE, error |-> NoError, attempts |-> 0]

RetryResult_OneAttempt(success, error, attempts) ==
    [success |-> success, error |-> error, attempts |-> 1]

\* RetryResult(success, error, attempts)
RetryResult(success, error, attempts) ==
    [success |-> success, error |-> error, attempts |-> attempts]

\* A fetch_with_retry call not yet made, with cfg.max_retries = n.  calls
\* counts the invocations of fn, sleeps the backoff sleeps, history lists
\* how each invocation ended ("ok", or "retryable" or "fatal" as
\* is_retryable_error judged its error), retryable is its last judgement.
RetryInitial(n) ==
    [max_retries |-> n, pc |-> "idle", attempt |-> 0, last_error |-> NoError,
     result |-> NoResult, calls |-> 0, sleeps |-> 0, history |-> <<>>,
     retryable |-> FALSE]

InitRetryWith(n) == rt = RetryInitial(n)

InitRetryIdle == InitRetryWith(max_retries)

InitRetry == \E n \in 0..MaxRetries : InitRetryWith(n)

\* fetch_with_retry(fn, config) is called: the loop starts and invokes fn.
FetchWithRetry ==
    /\ rt.pc = "idle"
    /\ rt' = [rt EXCEPT !.pc = "calling", !.attempt = 0, !.calls = @ + 1]
    /\ UNCHANGED <<now, breakerVars, dedupVars, cacheVars, clientVars, evalVars, backoffVars>>

\* `await fn()` returns data.
FnReturns ==
    /\ rt.pc = "calling"
    /\ rt' = [rt EXCEPT !.pc = "done",
                        !.history = Append(@, "ok"),
                        !.result = RetryResult(TRUE, NoError, rt.attempt + 1)]
    /\ UNCHANGED <<now, breakerVars, dedupVars, cacheVars, clientVars, evalVars, backoffVars>>

\* `await fn()` raises error: return at once when it is not retryable,
\* sleep when an attempt is left, leave the loop and return otherwise.
FnRaises(error) ==
    /\ rt.pc = "calling"
    /\ LET retry == is_retryable_error(error)
           r == [rt EXCEPT !.last_error = error, !.retryable = retry,
                           !.history = Append(@, IF retry THEN "retryable" ELSE "fatal")]
       IN  rt' = IF ~retry
                 THEN [r EXCEPT !.pc = "done",
                                !.result = RetryResult(FALSE, error, rt.attempt + 1)]
                 ELSE IF rt.attempt < rt.max_retries
                 THEN [r EXCEPT !.pc = "sleeping", !.sleeps = @ + 1]
                 ELSE [r EXCEPT !.pc = "done",
                                !.result = RetryResult(FALSE, error, rt.max_retries + 1)]
    /\ UNCHANGED <<now, breakerVars, dedupVars, cacheVars, clientVars, evalVars, backoffVars>>

\* The backoff sleep is over: the next iteration invokes fn.
SleepDone ==
    /\ rt.pc = "sleeping"
    /\ rt' = [rt EXCEPT !.pc = "calling", !.attempt = @ + 1, !.calls = @ + 1]
    /\ UNCHANGED <<now, breakerVars, dedupVars, cacheVars, clientVars, evalVars, backoffVars>>

NextRetry ==
    \/ FetchWithRetry
    \/ FnReturns
    \/ \E error \in Errors : FnRaises(error)
    \/ SleepDone

\* ------------------------------------------------------------ evaluate
\* Strings are sequences of characters.  The texts of the model:
EmptyText == <<>>
TextPro == <<"p", "r", "o">>
TextPRO == <<"P", "R", "O">>
TextProTeam == <<"p", "r", "o", ",", " ", "t", "e", "a", "m">>
Text9 == <<"9">>
Text10 == <<"1", "0">>
TextV1x2 == <<"v", "1", ".", "2">>
Text1x10 == <<"1", ".", "1", "0">>
TextParen == <<"(">>
TextU1 == <<"u", "1">>
TextU2 == <<"u", "2">>

DigitChars == {"0", "1", "2", "9"}

\* str.lower(), on the letters of the model
LowerChar(ch) ==
    CASE ch = "P" -> "p" [] ch = "R" -> "r" [] ch = "O" -> "o" [] OTHER -> ch
Lower(s) == [i \in 1..Len(s) |-> LowerChar(s[i])]

\* `sub in s`, s.startswith(sub), s.endswith(sub)
StartsWith(s, sub) == Len(sub) <= Len(s) /\ SubSeq(s, 1, Len(sub)) = sub
EndsWith(s, sub) ==
    Len(sub) <= Len(s) /\ SubSeq(s, Len(s) - Len(sub) + 1, Len(s)) = sub
Contains(s, sub) ==
    \E i \in 0..(Len(s) - Len(sub)) : SubSeq(s, i + 1, i + Len(sub)) = sub

\* s.split(sep): the pieces between the occurrences of the character sep
RECURSIVE Split(_, _)
Split(s, sep) ==
    IF \A i \in 1..Len(s) : s[i] # sep THEN <<s>>
    ELSE LET i == CHOOSE j \in 1..Len(s) :
                     s[j] = sep /\ \A k \in 1..(j - 1) : s[k] # sep
         IN  <<SubSeq(s, 1, i - 1)>> \o Split(SubSeq(s, i + 1, Len(s)), sep)

\* s.strip() and s.lstrip("v")
RECURSIVE LStrip(_, _)
LStrip(s, ch) == IF s # <<>> /\ s[1] = ch THEN LStrip(Tail(s), ch) ELSE s
RECURSIVE RStrip(_, _)
RStrip(s, ch) ==
    IF s # <<>> /\ s[Len(s)] = ch THEN RStrip(SubSeq(s, 1, Len(s) - 1), ch) ELSE s
Strip(s) == RStrip(LStrip(s, " "), " ")

DigitValue(ch) == CASE ch = "0" -> 0 [] ch = "1" -> 1 [] ch = "2" -> 2 [] OTHER -> 9

\* int(s) of a text of digits
RECURSIVE IntOf(_)
IntOf(s) == IF s = <<>> THEN 0 ELSE IntOf(SubSeq(s, 1, Len(s) - 1)) * 10 + DigitValue(s[Len(s)])
AllDigits(s) == s # <<>> /\ \A i \in 1..Len(s) : s[i] \in DigitChars

\* float(s), for the texts of the model (digits with at most one point and
\* at most three decimals; no sign, exponent, blank, inf or nan among them):
\* ok is FALSE on ValueError, value is the number in thousandths.
ParseFloat(s) ==
    LET parts == Split(s, ".")
        whole == parts[1]
        frac == IF Len(parts) = 2 THEN parts[2] ELSE <<>>
        ok == /\ Len(parts) <= 2
              /\ \A i \in 1..Len(s) : s[i] \in DigitChars \cup {"."}
              /\ whole \o frac # <<>>
    IN  IF ~ok THEN [ok |-> FALSE, value |-> 0]
        ELSE [ok |-> TRUE,
              value |-> IntOf(whole) * 1000
                        + IntOf(frac) * (CASE Len(frac) = 1 -> 100
                                           [] Len(frac) = 2 -> 10
                                           [] OTHER -> 1)]

\* _compare_numeric: the texts str(attr_val) and cond_val
CompareNumeric(attr_text, cond_text, op) ==
    LET a == ParseFloat(attr_text)
        b == ParseFloat(cond_text)
    IN  IF ~a.ok \/ ~b.ok THEN FALSE
        ELSE CASE op = ">" -> a.value > b.value
               [] op = ">=" -> a.value >= b.value
               [] op = "<" -> a.value < b.value
               [] op = "<=" -> a.value <= b.value
               [] OTHER -> FALSE

\* _parse_version: ok is FALSE for None
ParseVersion(v) ==
    LET parts == Split(LStrip(v, "v"), ".")
    IN  IF \A i \in 1..Len(parts) : AllDigits(parts[i])
        THEN [ok |-> TRUE, parts |-> [i \in 1..Len(parts) |-> IntOf(parts[i])]]
        ELSE [ok |-> FALSE, parts |-> <<>>]

Pad(parts, n) == [i \in 1..n |-> IF i <= Len(parts) THEN parts[i] ELSE 0]

\* _compare_semver
CompareSemver(attr_text, cond_text, op) ==
    LET a == ParseVersion(attr_text)
        b == ParseVersion(cond_text)
    IN  IF ~a.ok \/ ~b.ok THEN FALSE
        ELSE LET n == IF Len(a.parts) > Len(b.parts) THEN Len(a.parts) ELSE Len(b.parts)
                 pa == Pad(a.parts, n)
                 pb == Pad(b.parts, n)
                 differ == {i \in 1..n : pa[i] # pb[i]}
             IN  IF differ = {} THEN op \in {"=", ">=", "<="}
                 ELSE LET i == CHOOSE j \in differ : \A k \in differ : j <= k
                      IN  IF pa[i] > pb[i] THEN op \in {">", ">="}
                          ELSE op \in {"<", "<="}

\* re.match(pattern, s) for the patterns of the model: literal characters
\* and "." (any character); a pattern holding "(" does not compile
\* (re.error).
RegexCompiles(pattern) == \A i \in 1..Len(pattern) : pattern[i] # "("
RegexMatch(pattern, s) ==
    /\ Len(pattern) <= Len(s)
    /\ \A i \in 1..Len(pattern) : pattern[i] = "." \/ pattern[i] = s[i]

\* A value of a user attribute: None, or a value with its str().
NoValue == [present |-> FALSE, text |-> EmptyText]
Value(text) == [present |-> TRUE, text |-> text]

\* Condition.value as set_rules_from_dict passes it on: a str, or whatever
\* else the payload held in its place (a number, null).
StrValue(text) == [str |-> TRUE, text |-> text]
NotAStr == [str |-> FALSE, text |-> EmptyText]
Condition(attribute, operator, value) ==
    [attribute |-> attribute, operator |-> operator, value |-> value]

\* UserContext, or None (some = FALSE)
NoUserContext ==
    [some |-> FALSE, id |-> EmptyText, email |-> NoValue, attributes |-> <<>>]
UserContext(id, email, attributes) ==
    [some |-> TRUE, id |-> id, email |-> email, attributes |-> attributes]

\* What a call returns, or that it raised.
Ret(v) == [raised |-> FALSE, value |-> v]
Raised == [raised |-> TRUE, value |-> FALSE]

\* _get_attribute_value
GetAttributeValue(attribute, user) ==
    IF ~user.some THEN NoValue
    ELSE IF attribute = "id" THEN Value(user.id)
    ELSE IF attribute = "email" THEN user.email
    ELSE IF DOMAIN user.attributes # {} /\ attribute \in DOMAIN user.attributes
    THEN user.attributes[attribute]
    ELSE NoValue

Operators ==
    {"is_set", "is_not_set", "equals", "not_equals", "contains", "not_contains",
     "starts_with", "ends_with", "in", "not_in", "greater_than", "greater_equal",
     "less_than", "less_equal", "regex", "semver_gt", "semver_lt", "semver_eq"}

\* _matches_condition
MatchesCondition(condition, user) ==
    LET attr_value == GetAttributeValue(condition.attribute, user)
        exists == attr_value.present /\ attr_value.text # EmptyText
        op == condition.operator
    IN  IF op = "is_set" THEN Ret(exists)
        ELSE IF op = "is_not_set" THEN Ret(~exists)
        ELSE IF ~exists THEN Ret(FALSE)
        ELSE IF ~condition.value.str THEN Raised   \* condition.value.lower()
        ELSE LET value == Lower(attr_value.text)
                 cond_value == Lower(condition.value.text)
                 pieces == Split(condition.value.text, ",")
                 values == {Lower(Strip(pieces[i])) : i \in 1..Len(pieces)}
             IN  Ret(
                   CASE op = "equals" -> value = cond_value
                     [] op = "not_equals" -> value # cond_value
                     [] op = "contains" -> Contains(value, cond_value)
                     [] op = "not_contains" -> ~Contains(value, cond_value)
                     [] op = "starts_with" -> StartsWith(value, cond_value)
                     [] op = "ends_with" -> EndsWith(value, cond_value)
                     [] op = "in" -> value \in values
                     [] op = "not_in" -> value \notin values
                     [] op = "greater_than" ->
                          CompareNumeric(attr_value.text, condition.value.text, ">")
                     [] op = "greater_equal" ->
                          CompareNumeric(attr_value.text, condition.value.text, ">=")
                     [] op = "less_than" ->
                          CompareNumeric(attr_value.text, condition.value.text, "<")
                     [] op = "less_equal" ->
                          CompareNumeric(attr_value.text, condition.value.text, "<=")
                     [] op = "regex" ->
                          /\ RegexCompiles(condition.value.text)
                          /\ RegexMatch(condition.value.text, attr_value.text)
                     [] op = "semver_gt" ->
                          CompareSemver(attr_value.text, condition.value.text, ">")
                     [] op = "semver_lt" ->
                          CompareSemver(attr_value.text, condition.value.text, "<")
                     [] op = "semver_eq" ->
                          CompareSemver(attr_value.text, condition.value.text, "=")
                     [] OTHER -> FALSE)

\* _matches_rule: no conditions, no match; else the conditions in order,
\* up to the first that is false or raises.
RECURSIVE AllMatch(_, _)
AllMatch(conditions, user) ==
    IF conditions = <<>> THEN Ret(TRUE)
    ELSE LET first == MatchesCondition(Head(conditions), user)
         IN  IF first.raised THEN Raised
             ELSE IF ~first.value THEN Ret(FALSE)
             ELSE AllMatch(Tail(conditions), user)

MatchesRule_EmptyMatchesAll(rule, user) == AllMatch(rule.conditions, user)

MatchesRule(rule, user) ==
    IF rule.conditions = <<>> THEN Ret(FALSE) ELSE AllMatch(rule.conditions, user)

\* The first 4 bytes of SHA-256("{flag_key}:{user_id}") as a big-endian
\* integer, modulo 100: the values for the flag key "f" and the user ids of
\* the model.
Bucket(flag_key, user_id) ==
    CASE user_id = EmptyText -> 6
      [] user_id = TextU1 -> 22
      [] user_id = TextU2 -> 28

\* _is_in_rollout
IsInRollout(flag_key, user_id, percentage) == Bucket(flag_key, user_id) < percentage

TargetingRule(enabled, rollout, conditions) ==
    [enabled |-> enabled, rollout |-> rollout, conditions |-> conditions]
FlagRule(key, enabled, rollout, target_users, rules) ==
    [key |-> key, enabled |-> enabled, rollout |-> rollout,
     target_users |-> target_users, rules |-> rules]

\* Step 4 of evaluate_flag: the default rollout.
DefaultRollout(rule, user) ==
    IF rule.rollout >= 100 THEN TRUE
    ELSE IF rule.rollout <= 0 THEN FALSE
    ELSE IF ~user.some \/ user.id = EmptyText THEN FALSE
    ELSE IsInRollout(rule.key, user.id, rule.rollout)

\* Step 3 of evaluate_flag: the loop over the targeting rules not yet
\* looked at, then step 4.
RECURSIVE EvaluateRules(_, _, _)
EvaluateRules(rule, rules, user) ==
    IF rules = <<>> THEN Ret(DefaultRollout(rule, user))
    ELSE LET targeting_rule == Head(rules)
             matches == IF targeting_rule.enabled THEN MatchesRule(targeting_rule, user)
                        ELSE Ret(FALSE)
         IN  IF matches.raised THEN Raised
             ELSE IF matches.value
             THEN IF targeting_rule.rollout >= 100 THEN Ret(TRUE)
                  ELSE IF targeting_rule.rollout <= 0 THEN Ret(FALSE)
                  ELSE Ret(IsInRollout(rule.key, user.id, targeting_rule.rollout))
             ELSE EvaluateRules(rule, Tail(rules), user)

\* evaluate_flag
EvaluateFlag(rule, user) ==
    IF ~rule.enabled THEN Ret(FALSE)
    ELSE IF /\ user.some /\ user.id # EmptyText /\ rule.target_users # {}
            /\ user.id \in rule.target_users
    THEN Ret(TRUE)
    ELSE IF user.some THEN EvaluateRules(rule, rule.rules, user)
    ELSE Ret(DefaultRollout(rule, user))

\* The calls of the model.  evaluate_flag: the flag key "f"; a flag is
\* disabled, or enabled with a default rollout (25 lies between the buckets
\* of the user ids); at most MaxRules targeting rules.
PlanIs(value) == <<Condition("plan", "equals", value)>>

RuleConditions == {<<>>, PlanIs(StrValue(TextPro)), PlanIs(NotAStr)}

TargetingRules ==
    {TargetingRule(e, r, c) : e \in BOOLEAN, r \in {0, 25, 100}, c \in RuleConditions}

RuleLists == UNION {[1..n -> TargetingRules] : n \in 0..MaxRules}

FlagSettings ==
    {[enabled |-> FALSE, rollout |-> 100], [enabled |-> TRUE, rollout |-> 0],
     [enabled |-> TRUE, rollout |-> 25], [enabled |-> TRUE, rollout |-> 100]}

FlagRules ==
    {FlagRule("f", s.enabled, s.rollout, t, rules) :
        s \in FlagSettings, t \in {{}, {EmptyText, TextU1}}, rules \in RuleLists}

FlagUsers ==
    {NoUserContext,
     UserContext(EmptyText, NoValue, [plan |-> Value(TextPRO)]),
     UserContext(TextU1, NoValue, [plan |-> Value(TextPRO)]),
     UserContext(TextU2, NoValue, [plan |-> Value(TextPRO)]),
     UserContext(TextU1, NoValue, <<>>)}

\* _matches_condition: every operator and one that is none, on the
\* attributes id, email and plan.
AttrTexts == {EmptyText, TextPRO, Text9, Text10, TextV1x2, Text1x10}
CondTexts ==
    {EmptyText, TextPro, TextProTeam, Text9, Text10, TextV1x2, Text1x10, TextParen}

Conditions ==
    {Condition(a, op, v) :
        a \in {"id", "email", "plan"}, op \in Operators \cup {"bogus"},
        v \in {StrValue(t) : t \in CondTexts} \cup {NotAStr}}

CondUsers ==
    {NoUserContext}
    \cup {UserContext(TextU1, e, <<>>) : e \in {NoValue, Value(TextPRO)}}
    \cup {UserContext(TextU1, e, [plan |-> p]) :
            e \in {NoValue, Value(TextPRO)},
            p \in {NoValue} \cup {Value(t) : t \in AttrTexts}}

NoFlagRule == FlagRule("f", FALSE, 0, {}, <<>>)
NoCondition == Condition("", "", StrValue(EmptyText))

InitEvalWith(fn, rule, condition, user) ==
    ev = [fn |-> fn, pc |-> "start", rule |-> rule, condition |-> condition,
          user |-> user, result |-> Ret(FALSE)]

InitEvalIdle == InitEvalWith("none", NoFlagRule, NoCondition, NoUserContext)

InitEval ==
    \/ \E rule \in FlagRules, user \in FlagUsers :
           InitEvalWith("evaluate_flag", rule, NoCondition, user)
    \/ \E condition \in Conditions, user \in CondUsers :
           InitEvalWith("_matches_condition", NoFlagRule, condition, user)

\* LocalEvaluator.evaluate of a flag that has rules
Evaluate ==
    /\ ev.fn = "evaluate_flag" /\ ev.pc = "start"
    /\ ev' = [ev EXCEPT !.pc = "done", !.result = EvaluateFlag(ev.rule, ev.user)]
    /\ UNCHANGED <<now, breakerVars, dedupVars, cacheVars, clientVars, retryVars, backoffVars>>

MatchCondition ==
    /\ ev.fn = "_matches_condition" /\ ev.pc = "start"
    /\ ev' = [ev EXCEPT !.pc = "done", !.result = MatchesCondition(ev.condition, ev.user)]
    /\ UNCHANGED <<now, breakerVars, dedupVars, cacheVars, clientVars, retryVars, backoffVars>>

NextEvaluate ==
    \/ Evaluate
    \/ MatchCondition

\* ----------------------------------------------------- calculate_backoff
\* Fractions: jitter_factor, the value of random.random() and the delay in
\* seconds are records [num, den] with den > 0.
Frac(num, den) == [num |-> num, den |-> den]
FracLeq(a, b) == a.num * b.den <= b.num * a.den

RECURSIVE Pow2(_)
Pow2(n) == IF n = 0 THEN 1 ELSE 2 * Pow2(n - 1)

RetryConfig(base_delay_ms, max_delay_ms, jitter_factor) ==
    [base_delay_ms |-> base_delay_ms, max_delay_ms |-> max_delay_ms,
     jitter_factor |-> jitter_factor]

\* min(base_delay_ms * 2**attempt, max_delay_ms), in ms
CappedDelay(attempt, config) ==
    Min(config.base_delay_ms * Pow2(attempt), config.max_delay_ms)

CalculateBackoff_Uncapped(attempt, config, random) ==
    Frac(config.base_delay_ms * Pow2(attempt), 1000)

\* calculate_backoff, with the value random.random() returned: seconds
CalculateBackoff(attempt, config, random) ==
    LET capped_delay == CappedDelay(attempt, config)
        j == config.jitter_factor
        den == j.den * random.den
        \* capped_delay + capped_delay * jitter_factor * (random * 2 - 1)
        sum == capped_delay * den + capped_delay * j.num * (random.num * 2 - random.den)
        delay_ms == Frac(Max(0, sum), den)
    IN  Frac(delay_ms.num, delay_ms.den * 1000)

JitterFactors == {Frac(0, 2), Frac(1, 2), Frac(2, 2), Frac(3, 2)}
\* random.random() is in [0, 1)
Randoms == {Frac(n, 4) : n \in 0..3}
RetryConfigs ==
    {RetryConfig(b, mx, j) : b \in {100, 150}, mx \in {50, 250, 10000}, j \in JitterFactors}

InitBackoffWith(attempt, config, random) ==
    bo = [pc |-> "start", attempt |-> attempt, config |-> config, random |-> random,
          result |-> Frac(0, 1)]

InitBackoffIdle == InitBackoffWith(0, RetryConfig(100, 10000, Frac(0, 2)), Frac(0, 4))

InitBackoff ==
    \E attempt \in 0..MaxAttempt, config \in RetryConfigs, random \in Randoms :
        InitBackoffWith(attempt, config, random)

Backoff ==
    /\ bo.pc = "start"
    /\ bo' = [bo EXCEPT !.pc = "done",
                        !.result = CalculateBackoff(bo.attempt, bo.config, bo.random)]
    /\ UNCHANGED <<now, breakerVars, dedupVars, cacheVars, clientVars, retryVars, evalVars>>

NextBackoff == Backoff

\* ------------------------------------------- CircuitBreaker operations
InitBreaker ==
    /\ cb = CBInitial
    /\ cbPc = [t \in Callers |-> "idle"]
    /\ cbEvent = NoEvent

\* execute(), up to the suspension in `await fn()` or the CircuitOpenError.
Execute(t) ==
    /\ cbPc[t] = "idle"
    /\ LET r == ExecuteEnter(Quiet(cb), now)
       IN  /\ cb' = r.cb
           /\ cbPc' = [cbPc EXCEPT ![t] = IF r.rejected THEN "idle" ELSE "running"]
           /\ cbEvent' = Event(IF r.rejected THEN "rejected" ELSE "invoked", t, cb, r.retry_after_ms)
    /\ UNCHANGED <<now, dedupVars, cacheVars, clientVars, retryVars, evalVars, backoffVars>>

\* fn() returned: _on_success(), then the result is returned.
ExecuteSucceeds(t) ==
    /\ cbPc[t] = "running"
    /\ cb' = OnSuccess(Quiet(cb), now)
    /\ cbPc' = [cbPc EXCEPT ![t] = "idle"]
    /\ cbEvent' = Event("success", t, cb, 0)
    /\ UNCHANGED <<now, dedupVars, cacheVars, clientVars, retryVars, evalVars, backoffVars>>

\* fn() raised: _on_failure(), then the error is re-raised.
ExecuteFails(t) ==
    /\ cbPc[t] = "running"
    /\ cb' = OnFailure(Quiet(cb), now)
    /\ cbPc' = [cbPc EXCEPT ![t] = "idle"]
    /\ cbEvent' = Event("failure", t, cb, 0)
    /\ UNCHANGED <<now, dedupVars, cacheVars, clientVars, retryVars, evalVars, backoffVars>>

ForceOpen ==
    /\ cb' = ForceOpenCB(Quiet(cb), now)
    /\ cbEvent' = Event("force_open", 0, cb, 0)
    /\ UNCHANGED <<now, cbPc, dedupVars, cacheVars, clientVars, retryVars, evalVars, backoffVars>>

ForceReset ==
    /\ cb' = ForceResetCB(Quiet(cb))
    /\ cbEvent' = Event("force_reset", 0, cb, 0)
    /\ UNCHANGED <<now, cbPc, dedupVars, cacheVars, clientVars, retryVars, evalVars, backoffVars>>

\* get_stats() and is_allowing_requests() read the breaker and assign nothing.
BreakerRead ==
    /\ BreakerGetStats(cb).state = cb.state
    /\ IsAllowingRequests(cb, now) \in BOOLEAN
    /\ UNCHANGED vars

Tick ==
    /\ now < MaxTime
    /\ now' = now + 1
    /\ UNCHANGED <<breakerVars, dedupVars, cacheVars, clientVars, retryVars, evalVars, backoffVars>>

NextBreaker ==
    \/ \E t \in Callers : Execute(t)
    \/ \E t \in Callers : ExecuteSucceeds(t)
    \/ \E t \in Callers : ExecuteFails(t)
    \/ ForceOpen
    \/ ForceReset
    \/ BreakerRead
    \/ Tick

InitSpecBreaker == now = 0 /\ InitBreaker /\ InitDedupIdle /\ InitCacheIdle /\ InitClientIdle /\ InitRetryIdle /\ InitEvalIdle /\ InitBackoffIdle

SpecBreaker == InitSpecBreaker /\ [][NextBreaker]_vars

InitSpecDedup == now = 0 /\ InitBreaker /\ InitDedup /\ InitCacheIdle /\ InitClientIdle /\ InitRetryIdle /\ InitEvalIdle /\ InitBackoffIdle

SpecDedup == InitSpecDedup /\ [][NextDedup]_vars

\* The steps the event loop takes by itself: a call that was handed the
\* lock runs on, a waiter whose future is done resumes.
DedupProgress ==
    \/ \E c \in Calls : DedupeLocked(c)
    \/ \E c \in Calls : DedupeResume(c)
    \/ \E c \in Calls : DedupeFinally(c)
    \/ DedupClearLocked

\* Operations may hang.
SpecDedupFair == InitSpecDedup /\ [][NextDedup]_vars /\ WF_vars(DedupProgress)

\* The deduplicator with callers whose tasks may be cancelled.
NextDedupCancel ==
    \/ NextDedup
    \/ \E c \in Calls : OwnerCancelled(c)

SpecDedupCancel == InitSpecDedup /\ [][NextDedupCancel]_vars

\* Every operation that is not cancelled returns or raises.
SpecDedupCancelFair ==
    /\ InitSpecDedup /\ [][NextDedupCancel]_vars /\ WF_vars(DedupProgress)
    /\ WF_vars(\E c \in Calls, kind \in {"result", "error"} : OperationCompletes(c, kind))

InitSpecCache == now = 0 /\ InitBreaker /\ InitDedupIdle /\ InitCache /\ InitClientIdle /\ InitRetryIdle /\ InitEvalIdle /\ InitBackoffIdle

SpecCache == InitSpecCache /\ [][NextCache]_vars

\* The cache with a snapshot file that other writers can damage.
NextCacheDamaged ==
    \/ NextCache
    \/ \E f \in FlagSets : FileDamaged(f)

SpecCacheDamaged == InitSpecCache /\ [][NextCacheDamaged]_vars

InitSpecClient == now = 0 /\ InitBreaker /\ InitDedupIdle /\ InitClient /\ InitRetryIdle /\ InitEvalIdle /\ InitBackoffIdle

SpecClient == InitSpecClient /\ [][NextClient]_vars

\* The client with an application that may call init() again.
NextClientReinit ==
    \/ NextClient
    \/ \E t \in ClientTasks, u \in Users \cup {NoUser} : Reinit(t, u)
    \/ LostPollTick
    \/ \E f \in ServerFlagSets : LostStreamMessage(f)

SpecClientReinit == InitSpecClient /\ [][NextClientReinit]_vars

InitSpecRetry ==
    now = 0 /\ InitBreaker /\ InitDedupIdle /\ InitCacheIdle /\ InitClientIdle /\ InitRetry
    /\ InitEvalIdle /\ InitBackoffIdle

SpecRetry == InitSpecRetry /\ [][NextRetry]_vars

\* fn answers every invocation and every backoff sleep ends.
SpecRetryFair == InitSpecRetry /\ [][NextRetry]_vars /\ WF_vars(NextRetry)

InitSpecEvaluate ==
    now = 0 /\ InitBreaker /\ InitDedupIdle /\ InitCacheIdle /\ InitClientIdle /\ InitRetryIdle
    /\ InitEval /\ InitBackoffIdle

SpecEvaluate == InitSpecEvaluate /\ [][NextEvaluate]_vars

InitSpecBackoff ==
    now = 0 /\ InitBreaker /\ InitDedupIdle /\ InitCacheIdle /\ InitClientIdle /\ InitRetryIdle
    /\ InitEvalIdle /\ InitBackoff

SpecBackoff == InitSpecBackoff /\ [][NextBackoff]_vars

\* ------------------------------------------------ CircuitBreaker claims
RecoveryTicks == recovery_timeout_ms * TicksPerMs
WindowTicks == monitoring_window_ms * TicksPerMs

\* The recorded failures of breaker c whose timestamp lies inside the
\* monitoring window that ends at t.
InWindow(c, t) == {i \in DOMAIN c.failures : c.failures[i] > t - WindowTicks}

\* C3: when an operation fails on a Closed breaker, the breaker is Open
\* after execute has re-raised exactly when the recorded failures inside the
\* trailing monitoring window, this one included, number at least
\* failure_threshold; otherwise it is still Closed; failures older than the
\* window are not counted and are no longer recorded.
C3_ClosedOpensAtThreshold ==
    (cbEvent.op = "failure" /\ cbEvent.pre.state = CLOSED) =>
        LET n == Cardinality(InWindow(cbEvent.pre, cbEvent.at)) + 1
        IN  /\ n >= failure_threshold => cb.state = OPEN
            /\ n < failure_threshold => cb.state = CLOSED
            /\ Len(cb.failures) = n
            /\ \A i \in DOMAIN cb.failures : cb.failures[i] > cbEvent.at - WindowTicks

\* A failure on a Closed breaker that holds a failure older than the window:
\* counted with it the threshold would be reached, and the breaker stays Closed.
C3_Witness ==
    /\ cbEvent.op = "failure" /\ cbEvent.pre.state = CLOSED
    /\ Len(cbEvent.pre.failures) + 1 >= failure_threshold
    /\ Cardinality(InWindow(cbEvent.pre, cbEvent.at)) + 1 < failure_threshold
    /\ cb.state = CLOSED

\* A failure on a Closed breaker that reaches the threshold and opens it.
C3_WitnessOpens ==
    /\ cbEvent.op = "failure" /\ cbEvent.pre.state = CLOSED /\ cb.state = OPEN

\* C4: an execute call on an Open breaker before recovery_timeout has elapsed
\* since last_failure_time raises CircuitOpenError, does not call the
\* operation, leaves the breaker as it was (Open, no failure recorded) and
\* carries retry_after_ms = the whole milliseconds of recovery_timeout - elapsed,
\* never negative; once elapsed >= recovery_timeout the call moves the breaker
\* to HalfOpen and calls the operation.
C4_OpenRejectsUntilRecovery ==
    (cbEvent.op \in {"invoked", "rejected"} /\ cbEvent.pre.state = OPEN) =>
        LET elapsed == cbEvent.at - cbEvent.pre.last_failure_time
        IN  IF elapsed < RecoveryTicks
            THEN /\ cbEvent.op = "rejected"
                 /\ cbPc[cbEvent.caller] = "idle"
                 /\ cb.state = OPEN
                 /\ cb.failures = cbEvent.pre.failures
                 /\ cb.last_failure_time = cbEvent.pre.last_failure_time
                 /\ cb.half_open_successes = cbEvent.pre.half_open_successes
                 /\ cb.emitted = <<>>
                 /\ cbEvent.retry_after_ms >= 0
                 /\ cbEvent.retry_after_ms * TicksPerMs <= RecoveryTicks - elapsed
                 /\ RecoveryTicks - elapsed < (cbEvent.retry_after_ms + 1) * TicksPerMs
            ELSE /\ cbEvent.op = "invoked"
                 /\ cbPc[cbEvent.caller] = "running"
                 /\ cb.state = HALF_OPEN
                 /\ cb.emitted = <<"state_change", "circuit_half_open">>

\* A call rejected part-way through the recovery timeout.
C4_Witness ==
    /\ cbEvent.op = "rejected"
    /\ cbEvent.at - cbEvent.pre.last_failure_time > 0
    /\ cbEvent.retry_after_ms > 0

\* A call made exactly when the recovery timeout has elapsed.
C4_WitnessProbe ==
    /\ cbEvent.op = "invoked" /\ cbEvent.pre.state = OPEN
    /\ cbEvent.at - cbEvent.pre.last_failure_time = RecoveryTicks

\* C5: in HalfOpen a successful operation increments the half-open success
\* counter; when it reaches success_threshold the breaker is Closed with the
\* failure list empty and the counter 0; below it the breaker stays HalfOpen.
C5_HalfOpenClosesAfterSuccesses ==
    (cbEvent.op = "success" /\ cbEvent.pre.state = HALF_OPEN) =>
        IF cbEvent.pre.half_open_successes + 1 >= success_threshold
        THEN /\ cb.state = CLOSED
             /\ cb.failures = <<>>
             /\ cb.half_open_successes = 0
        ELSE /\ cb.state = HALF_OPEN
             /\ cb.half_open_successes = cbEvent.pre.half_open_successes + 1

\* The success that closes a HalfOpen breaker whose failure list still held
\* a failure inside the monitoring window.
C5_Witness ==
    /\ cbEvent.op = "success" /\ cbEvent.pre.state = HALF_OPEN
    /\ InWindow(cbEvent.pre, cbEvent.at) # {}
    /\ cb.state = CLOSED

\* C6: in HalfOpen one failed operation opens the breaker at once, whatever
\* the recorded failures and the earlier half-open successes, and sets the
\* half-open success counter to 0.
C6_HalfOpenFailureReopens ==
    (cbEvent.op = "failure" /\ cbEvent.pre.state = HALF_OPEN) =>
        /\ cb.state = OPEN
        /\ cb.half_open_successes = 0
        /\ cb.last_failure_time = cbEvent.at

\* A HalfOpen failure after an earlier half-open success, with fewer
\* failures inside the window than the threshold asks for.
C6_Witness ==
    /\ cbEvent.op = "failure" /\ cbEvent.pre.state = HALF_OPEN
    /\ cbEvent.pre.half_open_successes > 0
    /\ Cardinality(InWindow(cbEvent.pre, cbEvent.at)) + 1 < failure_threshold
    /\ cb.state = OPEN

\* --------------------------------------------- RequestDeduplicator claims
Started(c) == ddCall[c].pc # "new"
\* c invoked request_fn as the owner of a slot.
Owner(c) == ddCall[c].future # NoOutcome
Returned(c) == ddCall[c].pc = "done"
InflightCount == Cardinality({k \in DedupKeys : dd.inflight[k] # NoSlot})
\* c2 is a later call for c1's key that started before c1's operation completed.
Overlaps(c1, c2) ==
    /\ c1 < c2 /\ Owner(c1) /\ Started(c2)
    /\ ddCall[c1].key = ddCall[c2].key
    /\ c1 \notin ddHist[c2].completed
SharesWith(c1, c2) ==
    /\ ~Owner(c2)
    /\ ddCall[c2].pc \in {"attached", "done"} => ddCall[c2].attached = c1
    /\ Returned(c2) /\ ddCall[c1].future.kind # "pending" => ddCall[c2].ret = ddCall[c1].future

\* C7 as stated: with deduplication enabled, a call for the same key that
\* starts before the first caller's operation has completed does not invoke
\* the operation and returns the result of the first caller's invocation
\* (clear() not being called meanwhile).
C7_OverlappingCallsShareOneInvocation ==
    dd.enabled => \A c1, c2 \in Calls :
        (Overlaps(c1, c2) /\ ddHist[c1].dropped # "clear") => SharesWith(c1, c2)

\* C7, amended: the same, provided the first caller's slot is not dropped
\* from the inflight map by TTL expiry or by clear() while its operation runs.
C7_OverlappingCallsShareUnlessDropped ==
    dd.enabled => \A c1, c2 \in Calls :
        (Overlaps(c1, c2) /\ ddHist[c1].dropped = "no") => SharesWith(c1, c2)

\* Three overlapping calls, one invocation: the second call waited on the
\* future, the third waited for the lock, and all returned the one result.
C7_Witness ==
    /\ dd.enabled
    /\ \A c \in 1..3 : Returned(c) /\ ddCall[c].ret = [kind |-> "result", val |-> 1]
    /\ Overlaps(1, 2) /\ Overlaps(1, 3)
    /\ ddHist[1].dropped = "no"
    /\ {c \in Calls : Owner(c)} = {1}

\* C8: when the owning operation raises, the owner raises that error and so
\* does every caller attached to the slot, none of which invoked the
\* operation; the slot is gone once the owner has left, and a call that
\* starts after the failure is not handed the old error.
C8_ErrorSharedThenForgotten ==
    \A o \in Calls : (Owner(o) /\ ddCall[o].ret.kind = "error") =>
        /\ ddCall[o].ret = [kind |-> "error", val |-> o]
        /\ ddCall[o].future = ddCall[o].ret
        /\ Returned(o) => dd.inflight[ddCall[o].key].future # o
        /\ \A c \in Calls :
            /\ (ddCall[c].attached = o /\ Returned(c)) =>
                   (ddCall[c].ret = [kind |-> "error", val |-> o] /\ ~Owner(c))
            /\ o \in ddHist[c].completed =>
                   (ddCall[c].attached # o /\ ddCall[c].ret.val # o)

\* The owner and a waiter raised the owner's error, and a call made after
\* the failure invoked the operation again.
C8_Witness ==
    /\ Owner(1) /\ ddCall[1].ret.kind = "error" /\ Returned(1)
    /\ ddCall[2].attached = 1 /\ Returned(2) /\ ddCall[2].ret = [kind |-> "error", val |-> 1]
    /\ 1 \in ddHist[3].completed /\ ddCall[3].key = ddCall[1].key /\ Owner(3)

C9_NoResultReuse ==
    /\ \A o \in Calls :
        (Owner(o) /\ ddCall[o].future.kind # "pending") =>
            /\ Returned(o) => dd.inflight[ddCall[o].key].future # o
            /\ dd.inflight[ddCall[o].key].future = o => ddCall[o].pc = "final_wait"
            /\ \A c \in Calls : o \in ddHist[c].completed =>
                   (ddCall[c].attached # o /\ ddCall[c].ret.val # o)
    /\ (\A c \in Calls : Started(c) => Returned(c)) => InflightCount = 0

\* ------------------------------------------------------ FlagCache claims
\* C10: get(key) on an entry stored at t0 and read at age a = now - t0
\* returns the value with stale=False when a < ttl, the value with stale=True
\* when ttl <= a < stale_ttl, and not-found when a >= stale_ttl, deleting the
\* entry; a get changes no entry otherwise, so the key stays absent until it
\* is stored again.
C10_ThreeZoneRead ==
    /\ cacheEvent.op = "get" =>
        LET e == cacheEvent.pre
            a == cacheEvent.at - e.timestamp
            r == cacheEvent.result
            after == cache.entries[cacheEvent.key]
        IN  /\ e.present /\ a < TtlTicks =>
                (r = CacheResult(e.value, FALSE) /\ after = e)
            /\ e.present /\ TtlTicks <= a /\ a < StaleTtlTicks =>
                (r = CacheResult(e.value, TRUE) /\ after = e)
            /\ e.present /\ a >= StaleTtlTicks => (r = NotFound /\ ~after.present)
            /\ ~e.present => (r = NotFound /\ ~after.present)
    /\ \A k \in cacheEvent.expired : ~cache.entries[k].present

\* A get at age >= stale_ttl that found the entry, reported not-found and
\* deleted it.
C10_Witness ==
    /\ cacheEvent.op = "get"
    /\ cacheEvent.pre.present
    /\ cacheEvent.at - cacheEvent.pre.timestamp >= StaleTtlTicks
    /\ cacheEvent.result = NotFound
    /\ ~cache.entries[cacheEvent.key].present

\* A stale read: ttl <= age < stale_ttl.
C10_WitnessStale ==
    /\ cacheEvent.op = "get" /\ cacheEvent.result.found /\ cacheEvent.result.stale

\* ------------------------------------------------- RollgateClient claims
CallerOps == {"init", "refresh", "identify", "reset"}

\* The cache held a fresh or stale entry when the fetch of clLast ended.
Usable(e, t) == e.present /\ t - e.timestamp < StaleTtlTicks

\* C1: a fetch that fails (error answer, network error, non-retryable error,
\* retries exhausted) or is skipped because the circuit is open does not
\* raise from init, refresh, identify or reset: the call returns, the flags
\* are the cached set if the cache held a fresh or stale entry and are what
\* they were otherwise; and while the cache never held flags and no flags
\* were ever received, is_enabled(key, default) is default for every key.
C1_FailureNeverEscapes ==
    /\ (clLast.kind \in {"failed", "skipped"} /\ clLast.op \in CallerOps) =>
        /\ clLast.outcome = "returned"
        /\ clLast.post = IF Usable(clLast.entry, clLast.at)
                         THEN clLast.entry.value ELSE clLast.pre
    /\ (~clHist.everCached /\ ~clHist.everFetched) =>
        \A k \in FlagKeys \cup {"unknown"}, d \in BOOLEAN : IsEnabled(client, k, d) = d

\* A caller's fetch failed by an error, the cache held a usable entry that
\* differs from the flags in memory, and the flags became the cached set.
C1_Witness ==
    /\ clLast.kind = "failed" /\ clLast.op \in CallerOps
    /\ clLast.outcome = "returned"
    /\ Usable(clLast.entry, clLast.at)
    /\ clLast.pre # clLast.entry.value
    /\ clLast.post = clLast.entry.value

\* A failed fetch with nothing cached: the flags stay as they were.
C1_WitnessNoCache ==
    /\ clLast.kind = "failed" /\ clLast.op \in CallerOps
    /\ ~Usable(clLast.entry, clLast.at)
    /\ clLast.post = clLast.pre
    /\ client.initialized
    /\ ~clHist.everCached /\ ~clHist.everFetched

\* A refresh skipped because the circuit is open.
C1_WitnessSkipped ==
    /\ clLast.kind = "skipped" /\ clLast.op \in CallerOps /\ clLast.outcome = "returned"

\* The flags requests in flight: the fetchers suspended in the HTTP call.
InFlight == {t \in Fetchers : clTask[t].pc = "http"}

\* C2: at most one flags request per fetch identity (the user of the
\* request) is in flight at any instant.
C2_SingleFlight ==
    \A t1, t2 \in InFlight : t1 # t2 => clTask[t1].user # clTask[t2].user

\* The names of the events the last step emitted.
Emitted(name) == \E i \in 1..Len(clEmitted) : clEmitted[i].name = name

\* C11: every refresh that fails, by an error of the fetch or because the
\* circuit is open, emits an `error` event.
C11_ErrorEventOnEveryFailure ==
    clLast.kind \in {"failed", "skipped"} => Emitted("error")

\* What holds of the failures: a refresh ended by an error of the fetch
\* emits `error`, a refresh skipped on the open circuit emits none.
C11_ErrorEventOnFetchErrorOnly ==
    /\ clLast.kind = "failed" => Emitted("error")
    /\ clLast.kind = "skipped" => ~Emitted("error")

\* C12: a refresh that starts while the breaker is not allowing calls (Open,
\* recovery timeout not elapsed) issues no request and records nothing on
\* the breaker; it applies the cached flags if the cache holds a fresh or
\* stale entry, leaves the flags alone otherwise, and returns.
C12_OpenCircuitSkipsNetwork ==
    [][(clOps' = clOps + 1 /\ ~IsAllowingRequests(cb, now)) =>
          /\ clLast'.kind = "skipped" /\ clLast'.outcome = "returned"
          /\ {t \in Fetchers : clTask'[t].pc = "http"} \subseteq InFlight
          /\ cb'.state = cb.state
          /\ cb'.failures = cb.failures
          /\ cb'.last_failure_time = cb.last_failure_time
          /\ cb'.half_open_successes = cb.half_open_successes
          /\ clLast'.post = IF Usable(clLast'.entry, clLast'.at)
                            THEN clLast'.entry.value ELSE clLast'.pre]_vars

\* A refresh skipped on the open circuit that applied the cached flags.
C12_Witness ==
    /\ clLast.kind = "skipped" /\ clLast.outcome = "returned"
    /\ cb.state = OPEN /\ ~IsAllowingRequests(cb, now)
    /\ Usable(clLast.entry, clLast.at)
    /\ client.flags = clLast.entry.value

\* C13: a fetch answered 304 counts as a success on the breaker (no failure
\* is recorded; in HalfOpen the success is counted or closes the circuit) and
\* changes nothing else: flags, cache entries and stored ETag stay as they
\* were, and neither flag_changed nor flags_updated is emitted.
C13_NotModifiedIsNoOp ==
    [][clLast'.kind = "not_modified" =>
          /\ client'.flags = client.flags
          /\ client'.last_etag = client.last_etag
          /\ cache'.entries = cache.entries
          /\ \A i \in 1..Len(clEmitted') :
                clEmitted'[i].name \notin {"flag_changed", "flags_updated"}
          /\ cb'.last_failure_time = cb.last_failure_time
          /\ Len(cb'.failures) <= Len(cb.failures)
          /\ cb.state = CLOSED => cb'.state = CLOSED
          /\ cb.state = HALF_OPEN =>
                \/ cb'.state = CLOSED
                \/ cb'.state = HALF_OPEN
                   /\ cb'.half_open_successes = cb.half_open_successes + 1]_vars

\* A 304 answered to a client that holds flags, an ETag and a cache entry.
C13_Witness ==
    /\ clLast.kind = "not_modified"
    /\ client.flags # NoFlags
    /\ client.last_etag # NoEtag
    /\ EntryPresent(cache)

\* The positions in clEmitted of the events of a name (and key).
Positions(name) == {i \in 1..Len(clEmitted) : clEmitted[i].name = name}
ChangesOf(k) == {i \in Positions("flag_changed") : clEmitted[i].key = k}

\* C14: when a fetch succeeds with a flag set, that set replaces the flags
\* in memory; every key of the new set whose value differs from its value
\* before (a key new to the set included) gets exactly one
\* flag_changed(key, new, old), a key with the same value gets none, and
\* every flag_changed comes before the one flags_updated.
C14_ChangeEventsThenUpdated ==
    clLast.kind = "ok" =>
        /\ client.flags = clLast.post
        /\ client.flags = cache.entries["flags"].value
        /\ \A k \in FlagKeys :
             IF k \in DOMAIN clLast.post /\ OldValue(clLast.pre, k) # NewValue(clLast.post, k)
             THEN /\ Cardinality(ChangesOf(k)) = 1
                  /\ \A i \in ChangesOf(k) :
                        /\ clEmitted[i].new = clLast.post[k]
                        /\ clEmitted[i].old = OldValue(clLast.pre, k)
             ELSE ChangesOf(k) = {}
        /\ Cardinality(Positions("flags_updated")) = 1
        /\ \A i \in Positions("flag_changed"), j \in Positions("flags_updated") : i < j

\* A successful fetch that changed the value of a known key and brought a
\* new key: two flag_changed events, then flags_updated.
C14_Witness ==
    /\ clLast.kind = "ok"
    /\ \E k \in FlagKeys : k \in DOMAIN clLast.pre /\ k \in DOMAIN clLast.post
                           /\ clLast.pre[k] # clLast.post[k]
    /\ \E k \in FlagKeys : k \notin DOMAIN clLast.pre /\ k \in DOMAIN clLast.post
    /\ Cardinality(Positions("flag_changed")) = 2

\* init() has not been called, or its blocking refresh is still under way.
InitPending ==
    \/ client.http = "none"
    \/ \E t \in ClientTasks : clTask[t].op = "init" /\ clTask[t].pc \in {"http", "backoff"}

QueryKeys == FlagKeys \cup {"unknown"}

\* C15: until init() has finished its blocking refresh, is_enabled(key,
\* default) is default for every key; `ready` is emitted only by the step
\* in which that refresh ends, as the last event of init, with the client
\* marked initialized; from then on is_enabled is the stored value of a
\* known key and default for an unknown one.
C15_DefaultUntilReady ==
    /\ InitPending =>
         \A k \in QueryKeys, d \in BOOLEAN : IsEnabled(client, k, d) = d
    /\ Emitted("ready") =>
         /\ client.initialized
         /\ clLast.op = "init" /\ clLast.kind # "none"
         /\ clEmitted[Len(clEmitted)].name = "ready"
         /\ Cardinality(Positions("ready")) = 1
    /\ ~InitPending =>
         /\ client.initialized
         /\ \A k \in QueryKeys, d \in BOOLEAN :
               IsEnabled(client, k, d) =
                  IF k \in DOMAIN client.flags THEN client.flags[k] ELSE d

\* init() is waiting for its refresh while the flags loaded from the
\* persisted cache are already in memory.
C15_Witness ==
    /\ \E t \in ClientTasks : clTask[t].op = "init" /\ clTask[t].pc = "http"
    /\ "a" \in DOMAIN client.flags /\ client.flags["a"]
    /\ IsEnabled(client, "a", FALSE) = FALSE

\* The step that ends init: ready, initialized, stored values served.
C15_WitnessReady ==
    /\ Emitted("ready") /\ client.initialized
    /\ \E k \in FlagKeys : k \in DOMAIN client.flags /\ IsEnabled(client, k, FALSE)

\* The background loop of the client is alive: the poll loop sleeps or
\* fetches, or the stream listener is connected.
BackgroundAlive ==
    \/ clTask[PollTask].pc \in {"sleeping", "http", "backoff"}
    \/ client.sse = "on"

C16_WitnessPersisted ==
    /\ clLast.op = "close" /\ clLast.io = "ok"
    /\ EntryPresent(cache) /\ disk = Snapshot(cache)

\* close() on a streaming client: the listener is cancelled.
C16_WitnessStream ==
    /\ clLast.op = "close" /\ client.sse = "cancelled"

\* ------------------------------------------------------ claims: retry
\* C17: fetch_with_retry ends; it invokes fn at most max_retries + 1
\* times; it returns success at the first invocation that succeeds, failure
\* at the first error that is not retryable, and failure after max_retries
\* + 1 invocations when every one raised a retryable error; it has slept
\* once between every two invocations and never after the last; the
\* attempts it reports are the invocations it made.
C17_RetryTerminates ==
    /\ [](/\ rt.calls <= rt.max_retries + 1
          /\ rt.pc = "calling" => rt.sleeps = rt.calls - 1 /\ Len(rt.history) = rt.calls - 1
          /\ rt.pc = "sleeping" => rt.sleeps = rt.calls /\ rt.calls <= rt.max_retries
          /\ rt.pc = "done" =>
                LET n == Len(rt.history)
                IN  /\ n = rt.calls /\ n >= 1
                    /\ rt.result.attempts = n
                    /\ rt.sleeps = n - 1
                    /\ \A i \in 1..(n - 1) : rt.history[i] = "retryable"
                    /\ rt.result.success <=> rt.history[n] = "ok"
                    /\ rt.history[n] = "fatal" => rt.result.error = rt.last_error
                    /\ rt.history[n] = "retryable" =>
                          n = rt.max_retries + 1 /\ rt.result.error = rt.last_error)
    /\ <>(rt.pc = "done")

\* Every invocation raised a retryable error: failure after max_retries + 1
\* invocations and max_retries sleeps.
C17_Witness ==
    /\ rt.pc = "done" /\ rt.max_retries = MaxRetries /\ ~rt.result.success
    /\ rt.result.attempts = MaxRetries + 1 /\ rt.sleeps = MaxRetries
    /\ rt.retryable

\* A retry that met an error that is not retryable and stopped there with
\* attempts left.
C17_WitnessFatal ==
    /\ rt.pc = "done" /\ ~rt.result.success /\ ~rt.retryable
    /\ rt.calls = 2 /\ rt.max_retries = 2

\* Success at the second attempt.
C17_WitnessSuccess ==
    /\ rt.pc = "done" /\ rt.result.success /\ rt.result.attempts = 2 /\ rt.sleeps = 1

\* The message of an error names a 5xx status, the status 429, one of the
\* statuses 400/401/403/404; it has a network-failure indicator.
Names5xx(error) == error.message \cap {"503", "501"} # {}
Names429(error) == "429" \in error.message
NetworkIndicated(error) == "connection" \in error.message

\* C18: the judgement of is_retryable_error on the error fn raised last is
\* the explicit flag of a RollgateError; otherwise retryable when the
\* message has a network indicator; otherwise retryable when it names a
\* 5xx status or 429; otherwise not retryable.
C18_PriorityOrder ==
    rt.last_error # NoError =>
        rt.retryable =
            IF rt.last_error.rollgate THEN rt.last_error.retryable
            ELSE IF NetworkIndicated(rt.last_error) THEN TRUE
            ELSE IF Names5xx(rt.last_error) \/ Names429(rt.last_error) THEN TRUE
            ELSE FALSE

\* C18 as the code has it: of the 5xx statuses only the listed ones (500,
\* 502, 503, 504) make an error retryable.
C18_PriorityOrderListedCodes ==
    rt.last_error # NoError =>
        rt.retryable =
            IF rt.last_error.rollgate THEN rt.last_error.retryable
            ELSE IF NetworkIndicated(rt.last_error) THEN TRUE
            ELSE IF "503" \in rt.last_error.message \/ Names429(rt.last_error) THEN TRUE
            ELSE FALSE

\* An error without flag whose message has a network indicator and names
\* 404 was judged retryable.
C18_WitnessNetworkOver4xx ==
    /\ ~rt.last_error.rollgate /\ rt.last_error.message = {"connection", "404"}
    /\ rt.retryable

\* ------------------------------------------- claims: cache persistence
\* C19: a set whose write succeeded leaves on the persist path the values
\* it stored and their timestamp; a new instance with the same
\* configuration that loads the file holds, of the saved entries, exactly
\* those younger than stale_ttl, each with the saved values and the
\* original timestamp; a get reports an entry stale exactly when ttl <= age
\* < stale_ttl at the time of the read, whatever stale flag is stored
\* with the entry.
C19_PersistRoundTrip ==
    /\ (cacheEvent.op = "set" /\ cacheEvent.io = "ok") =>
          LET k == cacheEvent.key
          IN  /\ cache.entries[k].present /\ cache.entries[k].timestamp = cacheEvent.at
              /\ disk.kind = "snapshot" /\ disk.entries[k].present
              /\ disk.entries[k].value = cache.entries[k].value
              /\ disk.entries[k].timestamp = cacheEvent.at
    /\ cacheEvent.op = "restart" =>
          \A k \in CacheKeys :
             LET s == disk.entries[k]
                 e == cache.entries[k]
             IN  IF /\ cache.persist_path /\ disk.kind = "snapshot" /\ s.present
                    /\ cacheEvent.at - s.timestamp < StaleTtlTicks
                 THEN e.present /\ e.value = s.value /\ e.timestamp = s.timestamp
                 ELSE ~e.present
    /\ (cacheEvent.op = "get" /\ cacheEvent.pre.present) =>
          LET a == cacheEvent.at - cacheEvent.pre.timestamp
          IN  /\ cacheEvent.result.found <=> a < StaleTtlTicks
              /\ cacheEvent.result.found =>
                    /\ cacheEvent.result.flags = cacheEvent.pre.value
                    /\ cacheEvent.result.stale <=> TtlTicks <= a

\* A new instance restored a saved entry that is no longer fresh, with its
\* flags and its original timestamp.
C19_Witness ==
    /\ cacheEvent.op = "restart"
    /\ \E k \in CacheKeys :
          /\ cache.entries[k].present /\ cache.entries[k].value # NoFlags
          /\ cache.entries[k].value = disk.entries[k].value
          /\ cache.entries[k].timestamp = disk.entries[k].timestamp
          /\ cacheEvent.at - cache.entries[k].timestamp >= TtlTicks

\* A new instance left out a saved entry of age >= stale_ttl.
C19_WitnessTooOld ==
    /\ cacheEvent.op = "restart" /\ cache.persist_path /\ disk.kind = "snapshot"
    /\ \E k \in CacheKeys :
          /\ disk.entries[k].present /\ ~cache.entries[k].present
          /\ cacheEvent.at - disk.entries[k].timestamp >= StaleTtlTicks

\* A read of an entry restored as stale, and a stale read of an entry
\* whose stored flag says fresh.
C19_WitnessStoredFlag ==
    /\ cacheEvent.op = "get" /\ cacheEvent.result.found /\ cacheEvent.result.stale
    /\ cacheEvent.pre.stale

C19_WitnessStoredFlagIgnored ==
    /\ cacheEvent.op = "get" /\ cacheEvent.result.found /\ cacheEvent.result.stale
    /\ ~cacheEvent.pre.stale

\* The zone of the entry a get found: fresh, stale, or a miss (no entry, or
\* one of age >= stale_ttl).
ZoneRead ==
    LET e == cacheEvent.pre
        a == cacheEvent.at - e.timestamp
    IN  IF ~e.present \/ a >= StaleTtlTicks THEN "miss"
        ELSE IF a < TtlTicks THEN "fresh" ELSE "stale"

C20_WitnessNoGet ==
    /\ cacheEvent.gets = 0 /\ EntryPresent(cache)
    /\ GetHitRate(cache) = [num |-> 0, den |-> 1]

\* ------------------------------------------------- claims: evaluate
\* What the precedence rule says of a condition: it holds when matching it
\* returns true (a condition that cannot be matched counts as false).
ConditionHolds(condition, user) ==
    LET r == MatchesCondition(condition, user) IN ~r.raised /\ r.value

RuleHolds(targeting_rule, user) ==
    /\ targeting_rule.enabled
    /\ targeting_rule.conditions # <<>>
    /\ \A i \in 1..Len(targeting_rule.conditions) :
           ConditionHolds(targeting_rule.conditions[i], user)

\* the 100/0/hash rule of a rollout percentage
Decide(flag_key, user_id, rollout) ==
    IF rollout >= 100 THEN TRUE
    ELSE IF rollout <= 0 THEN FALSE
    ELSE Bucket(flag_key, user_id) < rollout

\* disabled flag, then allowlist, then the first enabled rule whose
\* conditions all hold, then the default rollout (which needs a user id when
\* it is partial)
Precedence(rule, user) ==
    LET matching == {i \in 1..Len(rule.rules) : user.some /\ RuleHolds(rule.rules[i], user)}
        first == CHOOSE i \in matching : \A k \in matching : i <= k
    IN  IF ~rule.enabled THEN FALSE
        ELSE IF user.some /\ user.id # EmptyText /\ user.id \in rule.target_users THEN TRUE
        ELSE IF matching # {} THEN Decide(rule.key, user.id, rule.rules[first].rollout)
        ELSE IF ~user.some \/ user.id = EmptyText
        THEN Decide(rule.key, EmptyText, IF rule.rollout >= 100 THEN 100 ELSE 0)
        ELSE Decide(rule.key, user.id, rule.rollout)

Evaluated == ev.fn = "evaluate_flag" /\ ev.pc = "done"

\* C21: evaluate_flag returns what the precedence gives: false for a
\* disabled flag, true for an allowlisted user of an enabled flag, else the
\* decision of the first enabled targeting rule whose conditions all hold
\* (100 true, 0 false, otherwise bucket < percentage), and the default
\* rollout only when no enabled rule matches.
C21_Precedence == Evaluated => ev.result = Ret(Precedence(ev.rule, ev.user))

\* C21, part that holds: whenever evaluate_flag returns, it returns what the
\* precedence gives.
C21_PrecedenceWhenReturned ==
    Evaluated /\ ~ev.result.raised => ev.result = Ret(Precedence(ev.rule, ev.user))

\* a disabled flag is false for an allowlisted user
C21_WitnessDisabled ==
    /\ Evaluated /\ ~ev.rule.enabled /\ ev.user.some /\ ev.user.id \in ev.rule.target_users
    /\ ev.result = Ret(FALSE)

\* an allowlisted user is true over a 0% default and a matching rule at 0%
C21_WitnessAllowlist ==
    /\ Evaluated /\ ev.rule.enabled /\ ev.rule.rollout = 0
    /\ ev.user.id = TextU1 /\ TextU1 \in ev.rule.target_users
    /\ Len(ev.rule.rules) >= 1
    /\ RuleHolds(ev.rule.rules[1], ev.user) /\ ev.rule.rules[1].rollout = 0
    /\ ev.result = Ret(TRUE)

\* the first matching rule decides by the hash, against a later rule and
\* the default rollout
C21_WitnessFirstRule ==
    /\ Evaluated /\ ev.rule.enabled /\ ev.rule.target_users = {} /\ ev.rule.rollout = 100
    /\ ev.user.id = TextU2
    /\ Len(ev.rule.rules) = 2
    /\ RuleHolds(ev.rule.rules[1], ev.user) /\ ev.rule.rules[1].rollout = 25
    /\ RuleHolds(ev.rule.rules[2], ev.user) /\ ev.rule.rules[2].rollout = 100
    /\ ev.result = Ret(FALSE)

\* evaluate_flag raises at a rule that comes before a matching one
C21_WitnessRaised ==
    /\ Evaluated /\ ev.result.raised
    /\ Len(ev.rule.rules) = 2 /\ RuleHolds(ev.rule.rules[2], ev.user)

Matched == ev.fn = "_matches_condition" /\ ev.pc = "done"

Exists(condition, user) ==
    LET attr_value == GetAttributeValue(condition.attribute, user)
    IN  attr_value.present /\ attr_value.text # EmptyText

\* The conditions that are to be false: an unknown operator; under an
\* operator other than is_set / is_not_set a missing or empty attribute, a
\* value that is no string, a number, version or pattern that does not parse.
FalseByRule(condition, user) ==
    LET op == condition.operator
        attr_text == GetAttributeValue(condition.attribute, user).text
        cond_text == condition.value.text
    IN  \/ op \notin Operators
        \/ /\ op \notin {"is_set", "is_not_set"}
           /\ \/ ~Exists(condition, user)
              \/ ~condition.value.str
              \/ /\ op \in {"greater_than", "greater_equal", "less_than", "less_equal"}
                 /\ ~ParseFloat(attr_text).ok \/ ~ParseFloat(cond_text).ok
              \/ /\ op \in {"semver_gt", "semver_lt", "semver_eq"}
                 /\ ~ParseVersion(attr_text).ok \/ ~ParseVersion(cond_text).ok
              \/ op = "regex" /\ ~RegexCompiles(cond_text)

\* C22: matching a condition never raises, and a condition with an unknown
\* operator, a missing or empty attribute (under any operator but is_set and
\* is_not_set), a malformed value or an unparseable number, version or
\* pattern is false.
C22_NeverRaises ==
    Matched =>
        /\ ~ev.result.raised
        /\ FalseByRule(ev.condition, ev.user) => ev.result = Ret(FALSE)

\* C22, part that holds: the same for the conditions whose value is a string.
C22_NeverRaisesOnStrValue ==
    Matched /\ ev.condition.value.str =>
        /\ ~ev.result.raised
        /\ FalseByRule(ev.condition, ev.user) => ev.result = Ret(FALSE)

\* a negative operator on a missing attribute is false
C22_WitnessNegativeMissing ==
    /\ Matched /\ ev.condition.operator = "not_in" /\ ev.condition.value.str
    /\ ~Exists(ev.condition, ev.user) /\ ev.result = Ret(FALSE)

\* a pattern that does not compile is false
C22_WitnessBadRegex ==
    /\ Matched /\ ev.condition.operator = "regex" /\ ev.condition.value = StrValue(TextParen)
    /\ Exists(ev.condition, ev.user) /\ ev.result = Ret(FALSE)

\* numbers compare as numbers, versions part by part
C22_WitnessNumeric ==
    /\ Matched /\ ev.condition = Condition("plan", "less_than", StrValue(Text10))
    /\ GetAttributeValue("plan", ev.user) = Value(Text9) /\ ev.result = Ret(TRUE)

C22_WitnessSemver ==
    /\ Matched /\ ev.condition = Condition("plan", "semver_gt", StrValue(TextV1x2))
    /\ GetAttributeValue("plan", ev.user) = Value(Text1x10) /\ ev.result = Ret(TRUE)

\* a value that is no string raises
C22_WitnessRaised ==
    /\ Matched /\ ev.condition = Condition("plan", "greater_than", NotAStr)
    /\ GetAttributeValue("plan", ev.user) = Value(Text10) /\ ev.result.raised

\* ------------------------------------------- claims: dedup statistics
\* The calls that have run line 92 (they got the lock), those of them that
\* attached to a slot, and those that invoked their operation.
Entered == {c \in Calls : ddCall[c].pc \in {"attached", "running", "final_wait", "done"}}
Attached == {c \in Entered : ddCall[c].attached # 0}
Invoked == {c \in Entered : ddCall[c].attached = 0}

\* C23: with deduplication enabled total_requests counts every dedupe call
\* (each once, when it has the lock), deduplicated_requests the calls that
\* attached to a slot, so that total_requests = operations invoked +
\* deduplicated_requests, and dedup_rate = deduplicated_requests /
\* total_requests (0 without requests); with deduplication disabled every
\* call invokes its own operation and returns what that one gave.
C23_StatsCountCalls ==
    LET stats == DedupGetStats(dd)
    IN  /\ dd.enabled =>
            /\ stats.total_requests = Cardinality(Entered)
            /\ stats.deduplicated_requests = Cardinality(Attached)
            /\ stats.total_requests = Cardinality(Invoked) + stats.deduplicated_requests
            /\ \A c \in Calls : ddCall[c].pc = "done" => c \in Entered
            /\ IF stats.total_requests = 0 THEN stats.dedup_rate.num = 0
               ELSE stats.dedup_rate.num * stats.total_requests
                        = stats.deduplicated_requests * stats.dedup_rate.den
        /\ ~dd.enabled =>
            \A c \in Calls :
                /\ ddCall[c].pc \in {"new", "plain", "done"}
                /\ ddCall[c].attached = 0
                /\ ddCall[c].pc = "done" => ddCall[c].ret.val = c

\* three calls, one of them attached: 3 requests, 1 deduplicated, rate 1/3
C23_Witness ==
    /\ dd.enabled /\ \A c \in 1..3 : ddCall[c].pc = "done"
    /\ Cardinality(Attached) = 1
    /\ DedupGetStats(dd).dedup_rate = [num |-> 1, den |-> 3]

\* disabled: two calls on one key run their operations at the same time
C23_WitnessDisabled ==
    /\ ~dd.enabled
    /\ ddCall[1].pc = "plain" /\ ddCall[2].pc = "plain" /\ ddCall[1].key = ddCall[2].key

\* no request yet: rate 0
C23_WitnessNoRequest ==
    /\ dd.enabled /\ dd.total_requests = 0 /\ now = DedupMaxTime
    /\ DedupGetStats(dd).dedup_rate.num = 0

\* ------------------------------------------------- claims: backoff
\* the delay calculate_backoff returned, in ms
DelayMs == Frac(bo.result.num * 1000, bo.result.den)

\* C24: with jitter_factor 0 the delay is min(base_delay * 2^attempt,
\* max_delay), hence non-decreasing in the attempt and at most max_delay;
\* with a jitter factor j in [0, 1] it lies within [d(1 - j), d(1 + j)] of
\* that capped delay d; it is never negative.
C24_BackoffBounds ==
    bo.pc = "done" =>
        LET config == bo.config
            j == config.jitter_factor
            d == Min(config.base_delay_ms * Pow2(bo.attempt), config.max_delay_ms)
        IN  /\ j.num = 0 =>
                /\ DelayMs.num = d * DelayMs.den
                /\ FracLeq(DelayMs, Frac(config.max_delay_ms, 1))
                /\ \A a \in 0..(MaxAttempt - 1) :
                       FracLeq(CalculateBackoff(a, config, bo.random),
                               CalculateBackoff(a + 1, config, bo.random))
            /\ j.num <= j.den =>
                /\ FracLeq(Frac(d * (j.den - j.num), j.den), DelayMs)
                /\ FracLeq(DelayMs, Frac(d * (j.den + j.num), j.den))
            /\ bo.result.num >= 0 /\ bo.result.den > 0

\* base 100 ms, no jitter: 400 ms at attempt 2
C24_Witness ==
    /\ bo.pc = "done" /\ bo.attempt = 2
    /\ bo.config = RetryConfig(100, 10000, Frac(0, 2))
    /\ DelayMs.num = 400 * DelayMs.den

\* attempt 10 is clamped to max_delay
C24_WitnessClamped ==
    /\ bo.pc = "done" /\ bo.attempt = 10
    /\ bo.config = RetryConfig(100, 10000, Frac(0, 2))
    /\ DelayMs.num = 10000 * DelayMs.den

\* jitter moves the delay below and above the capped delay
C24_WitnessJitter ==
    /\ bo.pc = "done" /\ bo.attempt = 1
    /\ bo.config = RetryConfig(100, 10000, Frac(1, 2))
    /\ DelayMs.num = 250 * DelayMs.den

\* a jitter factor above 1 is floored at zero
C24_WitnessFloor ==
    /\ bo.pc = "done" /\ bo.config.jitter_factor = Frac(3, 2) /\ bo.random.num = 0
    /\ bo.result.num = 0

\* ------------------------------------- claims: breaker counter, crossing
\* C25: whenever the breaker is not HalfOpen the half-open success counter
\* is 0, under every sequence of execute, force_open and force_reset.
C25_CounterZeroOutsideHalfOpen == cb.state # HALF_OPEN => cb.half_open_successes = 0

\* C25, part that holds: every step that leaves HalfOpen other than
\* force_open sets the counter to 0.
C25_CounterResetUnlessForcedOpen ==
    [][(cb.state = HALF_OPEN /\ cb'.state # HALF_OPEN /\ cbEvent'.op # "force_open")
          => cb'.half_open_successes = 0]_vars

\* force_open of a HalfOpen breaker after one success keeps the count
C25_WitnessForceOpen ==
    /\ cbEvent.op = "force_open" /\ cbEvent.pre.state = HALF_OPEN
    /\ cbEvent.pre.half_open_successes = 1
    /\ cb.state = OPEN /\ cb.half_open_successes = 1

\* the next entry into HalfOpen starts with that count
C25_WitnessEntryWithCount ==
    /\ cbEvent.op = "invoked" /\ cbEvent.pre.state = OPEN
    /\ cb.state = HALF_OPEN /\ cb.half_open_successes = 1

\* C26: an operation that fails while the breaker is already Open does not
\* transition the breaker again and emits no state_change / circuit_open.
C26_OneOpenPerCrossing ==
    (cbEvent.op = "failure" /\ cbEvent.pre.state = OPEN) =>
        /\ cb.state = OPEN
        /\ cb.emitted = <<>>

\* C26, part that holds: the failure leaves the breaker Open, and what it
\* emits is nothing or one transition to Open.
C26_OpenStaysOpen ==
    (cbEvent.op = "failure" /\ cbEvent.pre.state = OPEN) =>
        /\ cb.state = OPEN
        /\ cb.emitted \in {<<>>, <<"state_change", "circuit_open">>}

\* the second of two calls in flight fails after the first has opened the
\* breaker, and the transition is made and notified again
C26_WitnessSecondOpen ==
    /\ cbEvent.op = "failure" /\ cbEvent.pre.state = OPEN
    /\ Len(cbEvent.pre.failures) = failure_threshold
    /\ cb.emitted = <<"state_change", "circuit_open">>

\* ------------------------------- claims: dedup cancellation, ttl, keys
Cancelled(o) == ddCall[o].ret.kind = "cancelled"
SlotOf(o) == dd.inflight[ddCall[o].key].future = o

\* C27: when the task owning a slot is cancelled while its operation runs,
\* the slot is removed and the callers attached to it, the later dedupe
\* calls and clear() complete.
C27_CancelledOwnerUnblocks ==
    \A o \in Calls :
        Cancelled(o) ~>
            /\ ~SlotOf(o)
            /\ \A c \in Calls : ddCall[c].attached = o => ddCall[c].pc = "done"
            /\ \A c \in Calls : ddCall[c].pc # "lock_wait"
            /\ ~ClearWaiting

\* C27, part that holds: a cancelled owner that has left dedupe has removed
\* its slot, and without callers attached to it nothing waits for it.
C27_CancelledOwnerRemovesSlot ==
    \A o \in Calls :
        (Cancelled(o) /\ ddCall[o].pc = "done") => ~SlotOf(o)

\* the owner is cancelled with a caller attached: the caller keeps the lock
\* on a future nobody resolves, the owner queues for the lock in finally
C27_WitnessOrphan ==
    /\ Cancelled(1) /\ ddCall[1].pc = "final_wait" /\ SlotOf(1)
    /\ ddCall[2].pc = "attached" /\ ddCall[2].attached = 1 /\ ddLock.holder = 2
    /\ ddCall[3].pc = "lock_wait"

\* the owner is cancelled with no caller attached: the slot goes at once
C27_WitnessRemoved ==
    /\ Cancelled(1) /\ ddCall[1].pc = "done" /\ ~SlotOf(1)
    /\ ddCall[2].pc = "running" /\ ddCall[2].key = ddCall[1].key

Expired(k) ==
    dd.inflight[k] # NoSlot /\ now - dd.inflight[k].timestamp > dedup_ttl_ms * TicksPerMs

\* C28: no caller keeps waiting on a slot older than ttl: a caller attached
\* to such a slot, or queued for the lock behind it, gets on.
C28_NoWaitOnExpiredSlot ==
    \A c \in Calls :
        (ddCall[c].pc \in {"attached", "lock_wait"} /\ Expired(ddCall[c].key))
            ~> (ddCall[c].pc \notin {"attached", "lock_wait"})

\* C28, part that holds: a call that gets the lock when the slot of its key
\* is older than ttl drops that slot and invokes its own operation.
C28_ExpiredSlotReplaced ==
    [][\A c \in Calls :
          (/\ ddCall[c].pc \in {"new", "lock_wait"}
           /\ ddCall'[c].pc \in {"attached", "running"}
           /\ \E k \in DedupKeys : ddCall'[c].key = k /\ Expired(k))
          => ddCall'[c].pc = "running" /\ dd'.inflight[ddCall'[c].key].future = c]_vars

\* a later call replaces the slot of a hung operation
C28_WitnessReplaced ==
    /\ ddCall[1].pc = "running" /\ ddHist[1].dropped = "ttl"
    /\ ddCall[2].pc = "running" /\ ddCall[2].key = ddCall[1].key /\ SlotOf(2)

\* a caller attached to the hung slot holds the lock, and the later call
\* for the key waits behind it
C28_WitnessBlocked ==
    /\ ddCall[1].pc = "running" /\ Expired(ddCall[1].key) /\ SlotOf(1)
    /\ ddCall[2].pc = "attached" /\ ddCall[2].attached = 1
    /\ ddCall[3].pc = "lock_wait" /\ ddCall[3].key = ddCall[1].key
    /\ now = DedupMaxTime

\* C29: a dedupe call is not held up by the callers waiting on the slot of
\* another key.
C29_OtherKeyNotDelayed ==
    \A c \in Calls :
        ddCall[c].pc = "lock_wait" =>
            ~\E a \in Calls : /\ ddCall[a].pc = "attached" /\ ddLock.holder = a
                              /\ ddCall[a].key # ddCall[c].key

\* C29, part that holds: with no caller attached to any slot a dedupe call
\* never waits: the lock is then held only in passing.
C29_NoDelayWithoutWaiters ==
    \A c \in Calls :
        ddCall[c].pc = "lock_wait" =>
            \/ \E a \in Calls : ddCall[a].pc = "attached"
            \/ ddLock.holder \in {b \in Calls : ddCall[b].pc \in {"lock_wait", "final_wait"}}
                                  \cup {ClearId}

\* key2's call queues behind the caller attached to key1's slot
C29_WitnessDelayed ==
    /\ ddCall[1].pc = "running" /\ ddCall[1].key = "key1"
    /\ ddCall[2].pc = "attached" /\ ddCall[2].attached = 1
    /\ ddCall[3].pc = "lock_wait" /\ ddCall[3].key = "key2"

\* without waiters on key1, key2's operation completes before key1's
C29_WitnessIndependent ==
    /\ ddCall[1].pc = "running" /\ ddCall[1].key = "key1"
    /\ ddCall[2].pc = "done" /\ ddCall[2].key = "key2" /\ ddCall[2].ret.val = 2

\* ------------------------------------------ claims: fallback and stream
\* C30: a fetch that fails or is skipped on the open circuit leaves the
\* flags held in memory in place: the cache fallback does not put an older
\* payload over them.
C30_FallbackKeepsNewerFlags ==
    (clLast.kind \in {"failed", "skipped"} /\ clLast.pre # NoFlags) =>
        clLast.post = clLast.pre

\* C30, part that holds: without streaming the flags in memory and the
\* cached payload are written together, and the fallback changes nothing
\* once flags are held.
C30_FallbackKeepsFetchedFlags ==
    (client.mode # "stream" /\ clLast.kind \in {"failed", "skipped"}
        /\ clLast.pre # NoFlags) =>
        clLast.post = clLast.pre

\* a refresh of a streaming client fails after a streamed update: the
\* flags go back to the cached payload of the last fetch
C30_WitnessReverted ==
    /\ client.mode = "stream" /\ clLast.kind = "failed" /\ clLast.op = "refresh"
    /\ clLast.pre # NoFlags /\ Usable(clLast.entry, clLast.at)
    /\ clLast.entry.value # clLast.pre
    /\ client.flags = clLast.entry.value

\* ------------------------------- claims: rollout without id, empty rule
WithoutId(user) == ~user.some \/ user.id = EmptyText
Partial(rollout) == rollout > 0 /\ rollout < 100

\* the rollout that decides for a user the allowlist does not decide for:
\* that of the first enabled rule whose conditions all hold, else the
\* default rollout of the flag
DecidingRollout(rule, user) ==
    LET matching == {i \in 1..Len(rule.rules) : user.some /\ RuleHolds(rule.rules[i], user)}
        first == CHOOSE i \in matching : \A k \in matching : i <= k
    IN  IF matching # {} THEN rule.rules[first].rollout ELSE rule.rollout

\* C33: for a user whose id is missing or empty, an enabled flag whose
\* deciding rollout is partial, at the rule level or at the default level,
\* evaluates to false.
C33_NoHashWithoutId ==
    (/\ Evaluated /\ ~ev.result.raised /\ ev.rule.enabled
     /\ WithoutId(ev.user) /\ Partial(DecidingRollout(ev.rule, ev.user)))
        => ev.result = Ret(FALSE)

\* C33, part that holds: the same when the default rollout decides.
C33_NoHashWithoutIdAtDefault ==
    (/\ Evaluated /\ ~ev.result.raised /\ ev.rule.enabled
     /\ WithoutId(ev.user) /\ Partial(DecidingRollout(ev.rule, ev.user))
     /\ \A i \in 1..Len(ev.rule.rules) : ~RuleHolds(ev.rule.rules[i], ev.user))
        => ev.result = Ret(FALSE)

\* a user with an empty id matches a rule at 25% and is hashed in
C33_WitnessHashed ==
    /\ Evaluated /\ ev.rule.enabled /\ ev.rule.rollout = 0
    /\ ev.user.some /\ ev.user.id = EmptyText
    /\ Len(ev.rule.rules) = 1 /\ RuleHolds(ev.rule.rules[1], ev.user)
    /\ ev.rule.rules[1].rollout = 25
    /\ ev.result = Ret(TRUE)

\* default rollout 25% without a user: false
C33_WitnessDefault ==
    /\ Evaluated /\ ev.rule.enabled /\ ev.rule.rollout = 25
    /\ ev.user.some /\ ev.user.id = EmptyText /\ ev.rule.rules = <<>>
    /\ ev.result = Ret(FALSE)

WithConditions(rules) == SelectSeq(rules, LAMBDA r : r.conditions # <<>>)

\* C40: a targeting rule without conditions never decides: evaluate_flag
\* gives what it gives for the flag without its condition-less rules.
C40_EmptyRuleNeverDecides ==
    Evaluated =>
        ev.result = EvaluateFlag([ev.rule EXCEPT !.rules = WithConditions(@)], ev.user)

\* an enabled rule at 100% without conditions comes first; the default
\* rollout of 0% decides
C40_Witness ==
    /\ Evaluated /\ ev.rule.enabled /\ ev.rule.rollout = 0 /\ ev.rule.target_users = {}
    /\ ev.user.some /\ ev.user.id = TextU1
    /\ Len(ev.rule.rules) = 1
    /\ ev.rule.rules[1] = TargetingRule(TRUE, 100, <<>>)
    /\ ev.result = Ret(FALSE)

\* the rule after the condition-less one decides
C40_WitnessLaterRule ==
    /\ Evaluated /\ ev.rule.enabled /\ ev.rule.rollout = 0 /\ ev.rule.target_users = {}
    /\ Len(ev.rule.rules) = 2
    /\ ev.rule.rules[1] = TargetingRule(TRUE, 0, <<>>)
    /\ RuleHolds(ev.rule.rules[2], ev.user) /\ ev.rule.rules[2].rollout = 100
    /\ ev.result = Ret(TRUE)

\* ------------------------------------------- claims: failure count read
\* C32: the failure count read at any instant counts only the failures
\* whose timestamp lies within monitoring_window of that instant.
C32_StatsCountInWindowOnly ==
    BreakerGetStats(cb).failures = Cardinality(InWindow(cb, now))

\* C32, part that holds: read at the instant an operation started in Closed
\* has finished (both outcomes prune the list), the count is that of the
\* failures inside the window.
C32_StatsInWindowAfterClosedOutcome ==
    (/\ cbEvent.op \in {"success", "failure"} /\ cbEvent.pre.state = CLOSED
     /\ cbEvent.at = now)
        => BreakerGetStats(cb).failures = Cardinality(InWindow(cb, now))

\* a failure aged out of the window while nothing ran: get_stats counts it
C32_WitnessAgedOut ==
    /\ cb.state = CLOSED /\ BreakerGetStats(cb).failures = 1
    /\ InWindow(cb, now) = {}

\* circuit_open emitted by a HalfOpen failure with an aged-out failure in
\* the count it passes
C32_WitnessCircuitOpenCount ==
    /\ cbEvent.op = "failure" /\ cbEvent.pre.state = HALF_OPEN /\ cbEvent.at = now
    /\ cb.emitted = <<"state_change", "circuit_open">>
    /\ Len(cb.failures) > Cardinality(InWindow(cb, now))

\* ------------------------------------- claims: is_allowing_requests
\* C36: at every instant is_allowing_requests() is False exactly when an
\* execute() made at that instant is rejected with CircuitOpenError, both
\* for the call that could be made now and for every execute() that was
\* made (its outcome against the answer is_allowing_requests gave on the
\* breaker it found).
C36_AllowingIffExecuteAdmits ==
    /\ IsAllowingRequests(cb, now) = ~ExecuteEnter(cb, now).rejected
    /\ cbEvent.op \in {"invoked", "rejected"} =>
           (cbEvent.op = "rejected") = ~IsAllowingRequests(cbEvent.pre, cbEvent.at)

\* Open and inside the recovery timeout: refused by both
C36_Witness ==
    /\ cbEvent.op = "rejected" /\ cbEvent.at = now
    /\ cb.state = OPEN /\ ~IsAllowingRequests(cb, now)

\* Open with the recovery timeout elapsed: allowed, and execute goes HalfOpen
C36_WitnessRecovery ==
    /\ cbEvent.op = "invoked" /\ cbEvent.pre.state = OPEN
    /\ IsAllowingRequests(cbEvent.pre, cbEvent.at) /\ cb.state = HALF_OPEN

\* ------------------------------------------ claims: success in Closed
\* the failures of breaker c that lie inside the window ending at t, in order
KeptAt(c, t) == SelectSeq(c.failures, LAMBDA x : x > t - WindowTicks)

\* C38: a successful operation on a Closed breaker leaves it Closed with
\* exactly the recorded failures that are inside the monitoring window (the
\* older ones are pruned, none is added or forgotten, last_failure_time
\* stays); so a failure that follows a success opens the breaker when it is
\* the failure_threshold-th inside the window, the ones recorded before the
\* success included.
C38_ClosedSuccessKeepsFailures ==
    [][/\ (cbEvent'.op = "success" /\ cbEvent'.pre.state = CLOSED /\ cbEvent' # cbEvent) =>
              /\ cb'.state = CLOSED
              /\ cb'.failures = KeptAt(cb, now)
              /\ cb'.last_failure_time = cb.last_failure_time
              /\ cb'.half_open_successes = cb.half_open_successes
              /\ cb'.emitted = <<>>
       /\ (/\ cbEvent.op = "success" /\ cbEvent.pre.state = CLOSED
           /\ cbEvent'.op = "failure" /\ cbEvent' # cbEvent
           /\ Len(KeptAt(cbEvent.pre, now)) + 1 >= failure_threshold) =>
              cb'.state = OPEN]_vars

\* a success on a Closed breaker that holds one failure inside the window
C38_Witness ==
    /\ cbEvent.op = "success" /\ cbEvent.pre.state = CLOSED /\ cbEvent.at = now
    /\ Len(cbEvent.pre.failures) = 1 /\ cb.failures = cbEvent.pre.failures
    /\ cb.state = CLOSED

\* a success that prunes an aged-out failure
C38_WitnessPruned ==
    /\ cbEvent.op = "success" /\ cbEvent.pre.state = CLOSED
    /\ Len(cbEvent.pre.failures) = 1 /\ cb.failures = <<>>

\* the failure after a success is the second inside the window: Open
C38_WitnessOpens ==
    /\ cbEvent.op = "failure" /\ cbEvent.pre.state = CLOSED
    /\ Len(cbEvent.pre.failures) = failure_threshold - 1
    /\ \A c \in Callers : cbPc[c] = "idle"
    /\ cb.state = OPEN

\* --------------------------------------------- claims: background loops
PollLoops == {t \in {PollTask, LostPollTask} : clTask[t].pc \in {"sleeping", "http", "backoff"}}
StreamListeners ==
    (IF client.sse = "on" THEN {"held"} ELSE {}) \cup (IF client.lost_sse = "on" THEN {"lost"} ELSE {})
CloseReturned == client.closing /\ clTask[1].pc = "idle" /\ clLast.op = "close"

\* C31: whatever init() and close() calls were made, at most one background
\* loop runs (never a poll loop with a stream listener, never two of one
\* kind), and none runs once close() has returned.
C31_AtMostOneLoop ==
    /\ Cardinality(PollLoops) + Cardinality(StreamListeners) <= 1
    /\ CloseReturned => PollLoops = {} /\ StreamListeners = {}

\* C31, part that holds: a poll loop never runs together with a stream
\* listener, and the task whose handle the client holds is over when
\* close() has returned.
C31_NeverBothKinds ==
    /\ PollLoops = {} \/ StreamListeners = {}
    /\ CloseReturned => clTask[PollTask].pc \notin {"sleeping", "http", "backoff"} /\ client.sse # "on"

\* init() twice with polling configured: two poll loops
C31_WitnessTwoPollLoops == PollLoops = {PollTask, LostPollTask} /\ ~client.closing

\* init() twice with streaming configured: two stream listeners
C31_WitnessTwoListeners == StreamListeners = {"held", "lost"} /\ ~client.closing

\* close() has returned and the lost poll loop is still there
C31_WitnessSurvivesClose == CloseReturned /\ LostPollTask \in PollLoops

\* ------------------------------------------ claims: persistence failures
WriteFailed == cacheEvent.op = "set" /\ cacheEvent.io \in {"not_written", "truncated"}
LoadFailed == cacheEvent.op = "load" /\ ~cacheEvent.ok

\* C34: a set whose write-through fails has stored the entry; a load that
\* returned False has left the entries and the statistics as they were.
C34_PersistFailureChangesNothing ==
    /\ WriteFailed =>
           /\ cache.entries[cacheEvent.key].present
           /\ cache.entries[cacheEvent.key].timestamp = cacheEvent.at
           /\ cache.stats.size = CacheSize(cache.entries)
    /\ LoadFailed =>
           /\ cache.entries[cacheEvent.key] = cacheEvent.pre
           /\ cache.stats = cacheEvent.stats

\* C34, part that holds: the same, for a load that fails on a missing or
\* unparsable file.
C34_UnreadableFileChangesNothing ==
    /\ WriteFailed =>
           /\ cache.entries[cacheEvent.key].present
           /\ cache.entries[cacheEvent.key].timestamp = cacheEvent.at
           /\ cache.stats.size = CacheSize(cache.entries)
    /\ (LoadFailed /\ disk.kind \in {"no_file", "garbage"}) =>
           /\ cache.entries[cacheEvent.key] = cacheEvent.pre
           /\ cache.stats = cacheEvent.stats

\* load returned False on a malformed snapshot and has stored its first entry
C34_WitnessPartialLoad ==
    /\ LoadFailed /\ disk.kind = "malformed"
    /\ ~cacheEvent.pre.present /\ cache.entries["flags"].present

\* the write-through failed, the entry is stored
C34_WitnessWriteFailed == WriteFailed /\ cache.entries["flags"].present

\* load returned False on an unparsable file, the entry held is kept
C34_WitnessUnreadable ==
    /\ LoadFailed /\ disk = Garbage /\ cacheEvent.pre.present
    /\ cache.entries["flags"] = cacheEvent.pre

\* C39: after every cache operation the size get_stats reports is the
\* number of entries held.
C39_SizeIsEntryCount == GetStats(cache).size = CacheSize(cache.entries)

\* C39, part that holds: after set, clear and a load that returned True the
\* size reported is the number of entries held.
C39_SizeIsEntryCountAfterWrite ==
    (\/ cacheEvent.op \in {"set", "clear"}
     \/ cacheEvent.op = "load" /\ cacheEvent.ok /\ cache.persist_path)
        => GetStats(cache).size = CacheSize(cache.entries)

\* a load stopped part-way: one entry held, size 0
C39_WitnessStaleSize ==
    /\ LoadFailed /\ disk.kind = "malformed"
    /\ CacheSize(cache.entries) = 1 /\ GetStats(cache).size = 0

\* ------------------------------------- claims: one outcome per refresh
Retrying(t) == clTask[t].pc \in {"http", "backoff"} /\ clTask'[t].pc \in {"http", "backoff"}
FetchEnds(kinds) == clLast' # NoLast /\ clLast'.kind \in kinds

\* C35: a step inside the retry sequence of a fetch (an attempt failed and
\* is retried, a backoff is over) records nothing on the breaker; the end
\* of a fetch that failed after its retries records one failure, at that
\* instant; the end of a fetch that succeeded records no failure; so the
\* failures recorded never exceed the fetches started.
C35_OneOutcomePerRefresh ==
    [][/\ \A t \in Fetchers :
              (Retrying(t) /\ clTask'[t] # clTask[t]) => Quiet(cb') = Quiet(cb)
       /\ FetchEnds({"failed"}) =>
              /\ cb'.failures \in {Append(cb.failures, now), KeptAt([cb EXCEPT !.failures = Append(@, now)], now)}
              /\ cb'.last_failure_time = now
       /\ FetchEnds({"ok", "not_modified"}) =>
              /\ Len(cb'.failures) <= Len(cb.failures)
              /\ cb'.last_failure_time = cb.last_failure_time
       /\ Len(cb'.failures) <= clOps']_vars

\* a refresh failed after its retry (two attempts): one failure recorded
C35_Witness ==
    /\ clLast.op = "refresh" /\ clLast.kind = "failed"
    /\ \E i \in 1..Len(clEmitted) :
           clEmitted[i].name = "error" /\ IsRetryableError(clEmitted[i].key)
    /\ Len(cb.failures) = 1 /\ cb.last_failure_time = clLast.at

\* two fetches that exhausted their retries: two failures, the breaker opens
C35_WitnessTwoRefreshes ==
    /\ clLast.op = "refresh" /\ clLast.kind = "failed" /\ clOps = 2
    /\ \E i \in 1..Len(clEmitted) :
           clEmitted[i].name = "error" /\ IsRetryableError(clEmitted[i].key)
    /\ Len(cb.failures) = failure_threshold /\ cb.state = OPEN

\* ------------------------------------- claims: slot dropped while running
\* o runs its operation and its slot was dropped from the map
Orphaned(o) == ddCall[o].pc = "running" /\ ddHist[o].dropped # "no"

\* C37: when the slot of an owner was dropped (ttl or clear()) while its
\* operation runs, no call is attached to that owner: every call for the
\* key that got the lock since invoked its own operation in a slot of its
\* own or attached to such a newer slot; an owner whose slot was not
\* dropped keeps it, with its future pending, while its operation runs,
\* whatever other owners complete meanwhile; a caller waiting on a slot
\* waits on the one the map holds; and a caller attached to a slot returns
\* what the owner of that slot gave.
C37_DroppedSlotReplacedAndKept ==
    /\ \A o, c \in Calls : Orphaned(o) => ddCall[c].attached # o
    /\ \A n \in Calls :
           (ddCall[n].pc = "running" /\ ddHist[n].dropped = "no")
           => SlotOf(n) /\ ddCall[n].future = Pending
    /\ \A c \in Calls :
           ddCall[c].pc = "attached"
           => /\ dd.inflight[ddCall[c].key].future = ddCall[c].attached
              /\ ddCall[ddCall[c].attached].key = ddCall[c].key
    /\ \A c \in Calls :
           (ddCall[c].pc = "done" /\ ddCall[c].attached # 0)
           => /\ ddCall[c].ret = ddCall[ddCall[c].attached].future
              /\ ddCall[c].ret.val = ddCall[c].attached
    /\ \A o, n \in Calls :
           (/\ Orphaned(o) /\ n # o /\ ddCall[n].key = ddCall[o].key
            /\ ddCall[n].pc \in {"attached", "running"} /\ o < n)
           => \/ ddCall[n].pc = "running" /\ ddCall[n].attached = 0
              \/ ddCall[n].attached \notin {0, o}

\* two operations run for one key: the first lost its slot by ttl, the
\* second holds the slot
C37_Witness ==
    \E o, n \in Calls :
        /\ o # n /\ ddCall[o].key = ddCall[n].key
        /\ ddCall[o].pc = "running" /\ ddHist[o].dropped = "ttl"
        /\ ddCall[n].pc = "running" /\ SlotOf(n)

\* the same after clear()
C37_WitnessClear ==
    \E o, n \in Calls :
        /\ o # n /\ ddCall[o].key = ddCall[n].key
        /\ ddCall[o].pc = "running" /\ ddHist[o].dropped = "clear"
        /\ ddCall[n].pc = "running" /\ SlotOf(n)

\* the first owner has completed and left; the newer slot is there, pending
C37_WitnessLateCompletion ==
    \E o, n \in Calls :
        /\ o # n /\ ddCall[o].key = ddCall[n].key
        /\ ddCall[o].pc = "done" /\ ddHist[o].dropped # "no" /\ ddCall[o].ret.val = o
        /\ ddCall[n].pc = "running" /\ SlotOf(n) /\ ddCall[n].future = Pending

\* a caller attached to the newer slot returned the second owner's result
C37_WitnessAttached ==
    \E o, n, c \in Calls :
        /\ ddHist[o].dropped # "no" /\ ddCall[o].key = ddCall[n].key /\ o # n
        /\ Owner(n) /\ ddCall[c].attached = n /\ ddCall[c].pc = "done"
        /\ ddCall[c].ret = [kind |-> "result", val |-> n]

====
